---- MODULE Spec2Model ----
(***************************************************************************)
(* Ring FIFO of gfifo.h (caller-supplied buffer) and inc/sfifo.h (embedded *)
(* buffer).  Both headers generate, per element type, a struct             *)
(*     { buf, cap, msk, volatile i, volatile o }                           *)
(* and the operations init/reset/is_empty/is_full/count/push/pop/drop/     *)
(* peek/peek_at/push_array/pop_array.  i is the head (write) counter and o *)
(* the tail (read) counter; both are unsigned counters that wrap.          *)
(*                                                                         *)
(* Each C function is an operator on a queue record that returns the       *)
(* function's result together with the queue (and the caller's output)     *)
(* after the call.  Spec drives one queue of each flavor with the same     *)
(* calls; the calls are atomic there.                                      *)
(***************************************************************************)
EXTENDS Integers, Sequences, FiniteSets, TLC

\* ------------------------------------------------------------------ bounds
\* Queues are set up with the sizes 1 .. MaxCap that init accepts.
MaxCap == 8
\* Values handed to push/push_array are 1, 2, ..., MaxPush (each used once).
MaxPush == 9
\* Longest array handed to push_array / pop_array.
MaxLen == 3
\* A queue may start with both counters WrapLead below their wrap point.
WrapLead == 2
\* reset is called at most MaxReset times in a run.
MaxReset == 1
\* init and DECLARE_SFIFO_TYPE are tried with the sizes 0 .. MaxSize.
MaxSize == 1024
\* The two-thread runs: sizes 1 .. SpscCap, values 1 .. SpscPush,
\* arrays and offsets up to SpscLen.
SpscCap == 2
SpscPush == 3
SpscLen == 2

\* The index counters i, o (uint32_t in the source) are kept to CounterBits
\* bits: all index arithmetic is done modulo 2^CounterBits.
CounterBits == 16

\* ------------------------------------------------------- program constants
\* Content of static storage (the demos' fifo_buf, pop_data) before any write.
ZeroInit == 0

Flavor == {"gfifo", "sfifo"}

RECURSIVE Pow2(_)
Pow2(n) == IF n = 0 THEN 1 ELSE 2 * Pow2(n - 1)

\* Number of values of the counter type.
UINT32_MOD == Pow2(CounterBits)

\* uint32_t arithmetic: every result is reduced modulo the counter width.
U32(x) == x % UINT32_MOD

\* The C operator & on two unsigned values, bit by bit.
RECURSIVE BitAnd(_, _)
BitAnd(a, b) ==
  IF a = 0 \/ b = 0 THEN 0
  ELSE (a % 2) * (b % 2) + 2 * BitAnd(a \div 2, b \div 2)

\* memcpy(&dst[dofs], &src[sofs], n * sizeof(type)): n elements, arrays are
\* functions on 0..len-1.
Memcpy(dst, dofs, src, sofs, n) ==
  [k \in DOMAIN dst |->
     IF dofs <= k /\ k < dofs + n /\ (sofs + k - dofs) \in DOMAIN src
     THEN src[sofs + k - dofs] ELSE dst[k]]

\* The first n elements of array a, as a sequence.
ArrSeq(a, n) == [k \in 1..n |-> a[k - 1]]

\* An array of n zero-initialised elements.
ZeroArr(n) == [k \in 0..(n - 1) |-> ZeroInit]

\* The result of a call: ret is the bool returned (TRUE for void), cnt the
\* number returned by count(), e the caller's *e and arr the caller's array
\* after the call, f the queue after the call.
Result(ret, cnt, e, arr, f) ==
  [ret |-> ret, cnt |-> cnt, e |-> e, arr |-> arr, f |-> f]

\* ------------------------------------------------------------ gfifo.h
\* A pointer is modelled by whether it is NULL and by what it designates.
Ptr(null, obj) == [null |-> null, obj |-> obj]

\* gfifo_<name>_t as static storage leaves it: every field zero, no buffer.
gfifo_zero == [buf |-> ZeroArr(0), cap |-> 0, msk |-> 0, i |-> 0, o |-> 0]

\* gfifo_init without the size == 0 test.
gfifo_init_accepts_zero(f, buf, size) ==
  IF BitAnd(size, U32(size - 1)) # 0 \/ buf.null
  THEN Result(FALSE, 0, ZeroInit, ZeroArr(0), f)
  ELSE Result(TRUE, 0, ZeroInit, ZeroArr(0),
              [buf |-> buf.obj, cap |-> size, msk |-> U32(size - 1),
               i |-> 0, o |-> 0])

\* bool gfifo_init(f, buf, size); buf is Ptr(null, array of size elements).
gfifo_init(f, buf, size) ==
  IF size = 0 \/ BitAnd(size, U32(size - 1)) # 0 \/ buf.null
  THEN Result(FALSE, 0, ZeroInit, ZeroArr(0), f)
  ELSE Result(TRUE, 0, ZeroInit, ZeroArr(0),
              [buf |-> buf.obj, cap |-> size, msk |-> U32(size - 1),
               i |-> 0, o |-> 0])

\* gfifo_reset that zeroes the head only.
gfifo_reset_head_only(f) ==
  Result(TRUE, 0, ZeroInit, ZeroArr(0), [f EXCEPT !.i = 0])

\* void gfifo_reset(f)
gfifo_reset(f) ==
  Result(TRUE, 0, ZeroInit, ZeroArr(0), [f EXCEPT !.i = 0, !.o = 0])

\* bool gfifo_is_empty(f)
gfifo_is_empty(f) == Result(f.i = f.o, 0, ZeroInit, ZeroArr(0), f)

\* gfifo_is_full that compares the occupancy with the mask.
gfifo_is_full_by_mask(f) ==
  Result(U32(f.i - f.o) = f.msk, 0, ZeroInit, ZeroArr(0), f)

\* bool gfifo_is_full(f)
gfifo_is_full(f) == Result(U32(f.i - f.o) = f.cap, 0, ZeroInit, ZeroArr(0), f)

\* uint32_t gfifo_count(f)
gfifo_count(f) == Result(TRUE, U32(f.i - f.o), ZeroInit, ZeroArr(0), f)

\* gfifo_push with the admission test written cnt <= cap.
gfifo_push_admits_full(f, e) ==
  LET cnt == U32(f.i - f.o) IN
  IF cnt <= f.cap
  THEN LET idx == f.i IN
       Result(TRUE, 0, e, ZeroArr(0),
              [f EXCEPT !.buf[BitAnd(idx, f.msk)] = e, !.i = U32(f.i + 1)])
  ELSE Result(FALSE, 0, e, ZeroArr(0), f)

\* bool gfifo_push(f, e): e is the value *e.
gfifo_push(f, e) ==
  LET cnt == U32(f.i - f.o) IN
  IF cnt < f.cap
  THEN LET idx == f.i IN
       Result(TRUE, 0, e, ZeroArr(0),
              [f EXCEPT !.buf[BitAnd(idx, f.msk)] = e, !.i = U32(f.i + 1)])
  ELSE Result(FALSE, 0, e, ZeroArr(0), f)

\* gfifo_pop reading the slot after the tail slot.
gfifo_pop_next_slot(f, e) ==
  LET cnt == U32(f.i - f.o) IN
  IF cnt > 0
  THEN LET idx == f.o IN
       Result(TRUE, 0, f.buf[BitAnd(U32(idx + 1), f.msk)], ZeroArr(0),
              [f EXCEPT !.o = U32(f.o + 1)])
  ELSE Result(FALSE, 0, e, ZeroArr(0), f)

\* gfifo_pop that admits by comparing the counters, f->i > f->o.
gfifo_pop_compares_indices(f, e) ==
  IF f.i > f.o
  THEN LET idx == f.o IN
       Result(TRUE, 0, f.buf[BitAnd(idx, f.msk)], ZeroArr(0),
              [f EXCEPT !.o = U32(f.o + 1)])
  ELSE Result(FALSE, 0, e, ZeroArr(0), f)

\* bool gfifo_pop(f, e): e is the content of *e before the call.
gfifo_pop(f, e) ==
  LET cnt == U32(f.i - f.o) IN
  IF cnt > 0
  THEN LET idx == f.o IN
       Result(TRUE, 0, f.buf[BitAnd(idx, f.msk)], ZeroArr(0),
              [f EXCEPT !.o = U32(f.o + 1)])
  ELSE Result(FALSE, 0, e, ZeroArr(0), f)

\* gfifo_drop with f->o++ moved out of the if.
gfifo_drop_always_advances(f) ==
  LET cnt == U32(f.i - f.o) IN
  IF cnt > 0
  THEN Result(TRUE, 0, ZeroInit, ZeroArr(0), [f EXCEPT !.o = U32(f.o + 1)])
  ELSE Result(FALSE, 0, ZeroInit, ZeroArr(0), [f EXCEPT !.o = U32(f.o + 1)])

\* bool gfifo_drop(f)
gfifo_drop(f) ==
  LET cnt == U32(f.i - f.o) IN
  IF cnt > 0
  THEN Result(TRUE, 0, ZeroInit, ZeroArr(0), [f EXCEPT !.o = U32(f.o + 1)])
  ELSE Result(FALSE, 0, ZeroInit, ZeroArr(0), f)

\* A function definition compiles when its outermost block declares no name
\* twice (the parameters belong to that block) and every name it uses is
\* declared.
Compiles(params, locals, uses) ==
  LET decl == params \o locals IN
  /\ \A a, b \in DOMAIN decl : a # b => decl[a] # decl[b]
  /\ \A u \in uses : \E a \in DOMAIN decl : decl[a] = u

\* What there is when a function is missing or does not compile: no call,
\* nothing returned as success, the queue as it was.
NoFunction(f) == Result(FALSE, 0, ZeroInit, ZeroArr(0), f)

\* bool gfifo_drop_multi(f, cnt): the parameters, the locals of the body and
\* the names the body uses. The body declares uint32_t cnt next to the
\* parameter cnt and tests and adds len, which is declared nowhere.
gfifo_drop_multi_params == <<"f", "cnt">>
gfifo_drop_multi_locals == <<"in", "out", "cap", "msk", "cnt">>
gfifo_drop_multi_uses == {"f", "in", "out", "cnt", "len"}

\* The statements of gfifo_drop_multi, len standing for the number asked
\* for, where the definition compiles.
gfifo_drop_multi(f, len) ==
  IF ~Compiles(gfifo_drop_multi_params, gfifo_drop_multi_locals,
               gfifo_drop_multi_uses)
  THEN NoFunction(f)
  ELSE LET in  == f.i
           out == f.o
           cnt == U32(in - out)
       IN IF len = 0 THEN Result(TRUE, 0, ZeroInit, ZeroArr(0), f)
          ELSE IF cnt < len THEN Result(FALSE, 0, ZeroInit, ZeroArr(0), f)
          ELSE Result(TRUE, 0, ZeroInit, ZeroArr(0),
                      [f EXCEPT !.o = U32(out + len)])

\* The functions DECLARE_GFIFO_TYPE defines.
gfifo_functions ==
  {"init", "reset", "is_empty", "is_full", "count", "push", "pop", "drop",
   "drop_multi", "peek", "peek_at", "push_array", "pop_array"}

\* gfifo_peek that clears the slot it has read.
gfifo_peek_clears_slot(f, e) ==
  LET cnt == U32(f.i - f.o) IN
  IF cnt > 0
  THEN Result(TRUE, 0, f.buf[BitAnd(f.o, f.msk)], ZeroArr(0),
              [f EXCEPT !.buf[BitAnd(f.o, f.msk)] = ZeroInit])
  ELSE Result(FALSE, 0, e, ZeroArr(0), f)

\* bool gfifo_peek(f, e)
gfifo_peek(f, e) ==
  LET cnt == U32(f.i - f.o) IN
  IF cnt > 0
  THEN LET idx == f.o IN
       Result(TRUE, 0, f.buf[BitAnd(idx, f.msk)], ZeroArr(0), f)
  ELSE Result(FALSE, 0, e, ZeroArr(0), f)

\* gfifo_peek_at that reads the slot at the tail whatever the offset.
gfifo_peek_at_ignores_ofst(f, e, ofst) ==
  LET cnt == U32(f.i - f.o) IN
  IF ofst < cnt
  THEN LET idx == f.o IN
       Result(TRUE, 0, f.buf[BitAnd(idx, f.msk)], ZeroArr(0), f)
  ELSE Result(FALSE, 0, e, ZeroArr(0), f)

\* bool gfifo_peek_at(f, e, ofst)
gfifo_peek_at(f, e, ofst) ==
  LET cnt == U32(f.i - f.o) IN
  IF ofst < cnt
  THEN LET idx == f.o IN
       Result(TRUE, 0, f.buf[BitAnd(U32(idx + ofst), f.msk)], ZeroArr(0), f)
  ELSE Result(FALSE, 0, e, ZeroArr(0), f)

\* gfifo_push_array whose wrap segment is copied from arr[0], not arr[l1].
gfifo_push_array_wrap_from_start(f, arr, len) ==
  LET in  == f.i
      out == f.o
      cap == f.cap
      msk == f.msk
      spc == U32(cap - U32(in - out))
  IN
  IF len = 0 THEN Result(TRUE, 0, ZeroInit, arr, f)
  ELSE IF len > spc THEN Result(FALSE, 0, ZeroInit, arr, f)
  ELSE LET ofst == BitAnd(in, msk)
           l2e  == U32(cap - ofst)
           l1   == IF len < l2e THEN len ELSE l2e
           b1   == Memcpy(f.buf, ofst, arr, 0, l1)
           b2   == IF len > l1 THEN Memcpy(b1, 0, arr, 0, U32(len - l1)) ELSE b1
       IN Result(TRUE, 0, ZeroInit, arr,
                 [f EXCEPT !.buf = b2, !.i = U32(in + len)])

\* gfifo_push_array that refuses a request filling the queue: len >= spc.
gfifo_push_array_needs_spare(f, arr, len) ==
  LET in  == f.i
      out == f.o
      cap == f.cap
      msk == f.msk
      spc == U32(cap - U32(in - out))
  IN
  IF len = 0 THEN Result(TRUE, 0, ZeroInit, arr, f)
  ELSE IF len >= spc THEN Result(FALSE, 0, ZeroInit, arr, f)
  ELSE LET ofst == BitAnd(in, msk)
           l2e  == U32(cap - ofst)
           l1   == IF len < l2e THEN len ELSE l2e
           b1   == Memcpy(f.buf, ofst, arr, 0, l1)
           b2   == IF len > l1 THEN Memcpy(b1, 0, arr, l1, U32(len - l1)) ELSE b1
       IN Result(TRUE, 0, ZeroInit, arr,
                 [f EXCEPT !.buf = b2, !.i = U32(in + len)])

\* bool gfifo_push_array(f, arr, len)
gfifo_push_array(f, arr, len) ==
  LET in  == f.i
      out == f.o
      cap == f.cap
      msk == f.msk
      spc == U32(cap - U32(in - out))
  IN
  IF len = 0 THEN Result(TRUE, 0, ZeroInit, arr, f)
  ELSE IF len > spc THEN Result(FALSE, 0, ZeroInit, arr, f)
  ELSE LET ofst == BitAnd(in, msk)
           l2e  == U32(cap - ofst)
           l1   == IF len < l2e THEN len ELSE l2e
           b1   == Memcpy(f.buf, ofst, arr, 0, l1)
           b2   == IF len > l1 THEN Memcpy(b1, 0, arr, l1, U32(len - l1)) ELSE b1
       IN Result(TRUE, 0, ZeroInit, arr,
                 [f EXCEPT !.buf = b2, !.i = U32(in + len)])

\* gfifo_pop_array with a single memcpy() of len elements from the tail slot.
gfifo_pop_array_one_run(f, arr, len) ==
  LET in  == f.i
      out == f.o
      msk == f.msk
      cnt == U32(in - out)
  IN
  IF len = 0 THEN Result(TRUE, 0, ZeroInit, arr, f)
  ELSE IF cnt < len THEN Result(FALSE, 0, ZeroInit, arr, f)
  ELSE LET ofst == BitAnd(out, msk)
           a1   == Memcpy(arr, 0, f.buf, ofst, len)
       IN Result(TRUE, 0, ZeroInit, a1, [f EXCEPT !.o = U32(out + len)])

\* bool gfifo_pop_array(f, arr, len): arr is the caller's array before the call.
gfifo_pop_array(f, arr, len) ==
  LET in  == f.i
      out == f.o
      cap == f.cap
      msk == f.msk
      cnt == U32(in - out)
  IN
  IF len = 0 THEN Result(TRUE, 0, ZeroInit, arr, f)
  ELSE IF cnt < len THEN Result(FALSE, 0, ZeroInit, arr, f)
  ELSE LET ofst == BitAnd(out, msk)
           l2e  == U32(cap - ofst)
           l1   == IF len < l2e THEN len ELSE l2e
           a1   == Memcpy(arr, 0, f.buf, ofst, l1)
           a2   == IF len > l1 THEN Memcpy(a1, l1, f.buf, 0, U32(len - l1)) ELSE a1
       IN Result(TRUE, 0, ZeroInit, a2, [f EXCEPT !.o = U32(out + len)])

\* -------------------------------------------------------- inc/sfifo.h

\* _Static_assert(((size) & ((size) - 1)) == 0, ...): TRUE when
\* DECLARE_SFIFO_TYPE(name, type, size) compiles.
sfifo_static_assert(size) == BitAnd(size, U32(size - 1)) = 0

\* Compiling DECLARE_SFIFO_TYPE(name, type, size): the set of outcomes, TRUE
\* when the type sfifo_<name>_<size>_t exists afterwards. With size 0 the
\* member is `type buf[0]`, which ISO C does not allow and compilers accept
\* as an extension: a build either takes it or rejects it.
sfifo_declare(size) ==
  IF ~sfifo_static_assert(size) THEN {FALSE}
  ELSE IF size = 0 THEN {TRUE, FALSE}
  ELSE {TRUE}

\* sfifo_<name>_<size>_t as static storage leaves it: buf[size] and every
\* field zero.
sfifo_zero(size) ==
  [buf |-> ZeroArr(size), cap |-> 0, msk |-> 0, i |-> 0, o |-> 0]

\* sfifo_init that leaves the indices as they are.
sfifo_init_keeps_indices(size, f) ==
  IF f.null
  THEN Result(FALSE, 0, ZeroInit, ZeroArr(0), f.obj)
  ELSE Result(TRUE, 0, ZeroInit, ZeroArr(0),
              [f.obj EXCEPT !.cap = size, !.msk = U32(size - 1)])

\* bool sfifo_<name>_<size>_init(f); size is the macro's parameter, f is
\* Ptr(null, queue).
sfifo_init(size, f) ==
  IF f.null
  THEN Result(FALSE, 0, ZeroInit, ZeroArr(0), f.obj)
  ELSE Result(TRUE, 0, ZeroInit, ZeroArr(0),
              [f.obj EXCEPT !.i = 0, !.o = 0, !.cap = size,
                            !.msk = U32(size - 1)])

\* sfifo_reset that also clears the storage.
sfifo_reset_clears_storage(f) ==
  Result(TRUE, 0, ZeroInit, ZeroArr(0),
         [f EXCEPT !.i = 0, !.o = 0, !.buf = ZeroArr(f.cap)])

\* void sfifo_reset(f)
sfifo_reset(f) ==
  Result(TRUE, 0, ZeroInit, ZeroArr(0), [f EXCEPT !.i = 0, !.o = 0])

\* bool sfifo_is_empty(f)
sfifo_is_empty(f) == Result(f.i = f.o, 0, ZeroInit, ZeroArr(0), f)

\* bool sfifo_is_full(f)
sfifo_is_full(f) == Result(U32(f.i - f.o) = f.cap, 0, ZeroInit, ZeroArr(0), f)

\* sfifo_count that masks the occupancy.
sfifo_count_by_mask(f) ==
  Result(TRUE, BitAnd(U32(f.i - f.o), f.msk), ZeroInit, ZeroArr(0), f)

\* uint32_t sfifo_count(f)
sfifo_count(f) == Result(TRUE, U32(f.i - f.o), ZeroInit, ZeroArr(0), f)

\* sfifo_push storing into the slot after the head slot.
sfifo_push_wrong_slot(f, e) ==
  LET cnt == U32(f.i - f.o) IN
  IF cnt < f.cap
  THEN LET idx == f.i IN
       Result(TRUE, 0, e, ZeroArr(0),
              [f EXCEPT !.buf[BitAnd(U32(idx + 1), f.msk)] = e,
                        !.i = U32(f.i + 1)])
  ELSE Result(FALSE, 0, e, ZeroArr(0), f)

\* bool sfifo_push(f, e): e is the value *e.
sfifo_push(f, e) ==
  LET cnt == U32(f.i - f.o) IN
  IF cnt < f.cap
  THEN LET idx == f.i IN
       Result(TRUE, 0, e, ZeroArr(0),
              [f EXCEPT !.buf[BitAnd(idx, f.msk)] = e, !.i = U32(f.i + 1)])
  ELSE Result(FALSE, 0, e, ZeroArr(0), f)

\* sfifo_pop with the admission test written cnt >= 0.
sfifo_pop_admits_empty(f, e) ==
  LET cnt == U32(f.i - f.o) IN
  IF cnt >= 0
  THEN LET idx == f.o IN
       Result(TRUE, 0, f.buf[BitAnd(idx, f.msk)], ZeroArr(0),
              [f EXCEPT !.o = U32(f.o + 1)])
  ELSE Result(FALSE, 0, e, ZeroArr(0), f)

\* bool sfifo_pop(f, e): e is the content of *e before the call.
sfifo_pop(f, e) ==
  LET cnt == U32(f.i - f.o) IN
  IF cnt > 0
  THEN LET idx == f.o IN
       Result(TRUE, 0, f.buf[BitAnd(idx, f.msk)], ZeroArr(0),
              [f EXCEPT !.o = U32(f.o + 1)])
  ELSE Result(FALSE, 0, e, ZeroArr(0), f)

\* sfifo_drop whose admission test is cnt >= 0.
sfifo_drop_admits_empty(f) ==
  LET cnt == U32(f.i - f.o) IN
  IF cnt >= 0
  THEN Result(TRUE, 0, ZeroInit, ZeroArr(0), [f EXCEPT !.o = U32(f.o + 1)])
  ELSE Result(FALSE, 0, ZeroInit, ZeroArr(0), f)

\* bool sfifo_drop(f)
sfifo_drop(f) ==
  LET cnt == U32(f.i - f.o) IN
  IF cnt > 0
  THEN Result(TRUE, 0, ZeroInit, ZeroArr(0), [f EXCEPT !.o = U32(f.o + 1)])
  ELSE Result(FALSE, 0, ZeroInit, ZeroArr(0), f)

\* sfifo_peek that advances the tail as pop does.
sfifo_peek_consumes(f, e) ==
  LET cnt == U32(f.i - f.o) IN
  IF cnt > 0
  THEN LET idx == f.o IN
       Result(TRUE, 0, f.buf[BitAnd(idx, f.msk)], ZeroArr(0),
              [f EXCEPT !.o = U32(f.o + 1)])
  ELSE Result(FALSE, 0, e, ZeroArr(0), f)

\* bool sfifo_peek(f, e)
sfifo_peek(f, e) ==
  LET cnt == U32(f.i - f.o) IN
  IF cnt > 0
  THEN LET idx == f.o IN
       Result(TRUE, 0, f.buf[BitAnd(idx, f.msk)], ZeroArr(0), f)
  ELSE Result(FALSE, 0, e, ZeroArr(0), f)

\* sfifo_peek_at that copies the slot to *e before it tests the offset.
sfifo_peek_at_writes_first(f, e, ofst) ==
  LET cnt == U32(f.i - f.o)
      idx == f.o
      got == f.buf[BitAnd(U32(idx + ofst), f.msk)]
  IN Result(ofst < cnt, 0, got, ZeroArr(0), f)

\* bool sfifo_peek_at(f, e, ofst)
sfifo_peek_at(f, e, ofst) ==
  LET cnt == U32(f.i - f.o) IN
  IF ofst < cnt
  THEN LET idx == f.o IN
       Result(TRUE, 0, f.buf[BitAnd(U32(idx + ofst), f.msk)], ZeroArr(0), f)
  ELSE Result(FALSE, 0, e, ZeroArr(0), f)

\* sfifo_push_array that refuses a full queue before it looks at len.
sfifo_push_array_full_first(f, arr, len) ==
  LET in  == f.i
      out == f.o
      cap == f.cap
      msk == f.msk
      spc == U32(cap - U32(in - out))
  IN
  IF spc = 0 THEN Result(FALSE, 0, ZeroInit, arr, f)
  ELSE IF len = 0 THEN Result(TRUE, 0, ZeroInit, arr, f)
  ELSE IF len > spc THEN Result(FALSE, 0, ZeroInit, arr, f)
  ELSE LET ofst == BitAnd(in, msk)
           l2e  == U32(cap - ofst)
           l1   == IF len < l2e THEN len ELSE l2e
           b1   == Memcpy(f.buf, ofst, arr, 0, l1)
           b2   == IF len > l1 THEN Memcpy(b1, 0, arr, l1, U32(len - l1)) ELSE b1
       IN Result(TRUE, 0, ZeroInit, arr,
                 [f EXCEPT !.buf = b2, !.i = U32(in + len)])

\* sfifo_push_array whose admission test adds len to the occupancy first:
\* (in - out) + len > cap.
sfifo_push_array_adds_first(f, arr, len) ==
  LET in  == f.i
      out == f.o
      cap == f.cap
      msk == f.msk
  IN
  IF len = 0 THEN Result(TRUE, 0, ZeroInit, arr, f)
  ELSE IF U32(U32(in - out) + len) > cap
  THEN Result(FALSE, 0, ZeroInit, arr, f)
  ELSE LET ofst == BitAnd(in, msk)
           l2e  == U32(cap - ofst)
           l1   == IF len < l2e THEN len ELSE l2e
           b1   == Memcpy(f.buf, ofst, arr, 0, l1)
           b2   == IF len > l1 THEN Memcpy(b1, 0, arr, l1, U32(len - l1)) ELSE b1
       IN Result(TRUE, 0, ZeroInit, arr,
                 [f EXCEPT !.buf = b2, !.i = U32(in + len)])

\* bool sfifo_push_array(f, arr, len)
sfifo_push_array(f, arr, len) ==
  LET in  == f.i
      out == f.o
      cap == f.cap
      msk == f.msk
      spc == U32(cap - U32(in - out))
  IN
  IF len = 0 THEN Result(TRUE, 0, ZeroInit, arr, f)
  ELSE IF len > spc THEN Result(FALSE, 0, ZeroInit, arr, f)
  ELSE LET ofst == BitAnd(in, msk)
           l2e  == U32(cap - ofst)
           l1   == IF len < l2e THEN len ELSE l2e
           b1   == Memcpy(f.buf, ofst, arr, 0, l1)
           b2   == IF len > l1 THEN Memcpy(b1, 0, arr, l1, U32(len - l1)) ELSE b1
       IN Result(TRUE, 0, ZeroInit, arr,
                 [f EXCEPT !.buf = b2, !.i = U32(in + len)])

\* sfifo_pop_array that copies the first run before it tests cnt < len.
sfifo_pop_array_copies_first(f, arr, len) ==
  LET in  == f.i
      out == f.o
      cap == f.cap
      msk == f.msk
      cnt == U32(in - out)
      ofst == BitAnd(out, msk)
      l2e  == U32(cap - ofst)
      l1   == IF len < l2e THEN len ELSE l2e
      a1   == Memcpy(arr, 0, f.buf, ofst, l1)
  IN
  IF len = 0 THEN Result(TRUE, 0, ZeroInit, arr, f)
  ELSE IF cnt < len THEN Result(FALSE, 0, ZeroInit, a1, f)
  ELSE LET a2 == IF len > l1 THEN Memcpy(a1, l1, f.buf, 0, U32(len - l1)) ELSE a1
       IN Result(TRUE, 0, ZeroInit, a2, [f EXCEPT !.o = U32(out + len)])

\* sfifo_pop_array that stores the tail as out & msk plus len.
sfifo_pop_array_masks_tail(f, arr, len) ==
  LET in  == f.i
      out == f.o
      cap == f.cap
      msk == f.msk
      cnt == U32(in - out)
  IN
  IF len = 0 THEN Result(TRUE, 0, ZeroInit, arr, f)
  ELSE IF cnt < len THEN Result(FALSE, 0, ZeroInit, arr, f)
  ELSE LET ofst == BitAnd(out, msk)
           l2e  == U32(cap - ofst)
           l1   == IF len < l2e THEN len ELSE l2e
           a1   == Memcpy(arr, 0, f.buf, ofst, l1)
           a2   == IF len > l1 THEN Memcpy(a1, l1, f.buf, 0, U32(len - l1)) ELSE a1
       IN Result(TRUE, 0, ZeroInit, a2, [f EXCEPT !.o = U32(ofst + len)])

\* bool sfifo_pop_array(f, arr, len): arr is the caller's array before the call.
sfifo_pop_array(f, arr, len) ==
  LET in  == f.i
      out == f.o
      cap == f.cap
      msk == f.msk
      cnt == U32(in - out)
  IN
  IF len = 0 THEN Result(TRUE, 0, ZeroInit, arr, f)
  ELSE IF cnt < len THEN Result(FALSE, 0, ZeroInit, arr, f)
  ELSE LET ofst == BitAnd(out, msk)
           l2e  == U32(cap - ofst)
           l1   == IF len < l2e THEN len ELSE l2e
           a1   == Memcpy(arr, 0, f.buf, ofst, l1)
           a2   == IF len > l1 THEN Memcpy(a1, l1, f.buf, 0, U32(len - l1)) ELSE a1
       IN Result(TRUE, 0, ZeroInit, a2, [f EXCEPT !.o = U32(out + len)])

\* The functions DECLARE_SFIFO_TYPE defines.
sfifo_functions ==
  {"init", "reset", "is_empty", "is_full", "count", "push", "pop", "drop",
   "peek", "peek_at", "push_array", "pop_array"}

\* ------------------------------------------- gfifo.h, one access at a time
\* A call in progress is a frame t: op and the arguments (e, arr, len, ofst),
\* pc the place reached, the locals (in, out, idx, pofs, l1, tmp), k of n slot
\* copies done, pub the state of the call's index store ("none": the call has
\* none, "pending", "read": the ++ has read the index, "done"), and ret.
\* A step takes the queue f and the frame t to St(f, t).  The index fields
\* i and o are volatile, the slots of buf are not: the slot copies of a call
\* are not ordered against its index store.  A step with early = FALSE takes
\* the accesses in the order of the source text; a step with early = TRUE
\* performs the index store while slot copies of the call are still to come.
St(f, t) == [f |-> f, t |-> t]

\* return ret;
Return(t, ret) == [t EXCEPT !.pc = "idle", !.ret = ret]

\* return true; once every slot copy and the index store are done.
Finish(t) ==
  IF t.k = t.n /\ t.pub \in {"done", "none"} THEN Return(t, TRUE) ELSE t

\* The frame of a call that has not started.
Frame(op, e, ofst, arr, len) ==
  [op |-> op, pc |-> "rd_i", e |-> e, ofst |-> ofst, arr |-> arr, len |-> len,
   in |-> 0, out |-> 0, idx |-> 0, pofs |-> 0, l1 |-> 0, tmp |-> 0,
   k |-> 0, n |-> 0, pub |-> "none", ret |-> FALSE, cnt |-> 0]

\* gfifo_push that, finding the queue full, samples the indices again
\* instead of returning false.
gfifo_push_step_retries(f, t, early) ==
  CASE t.pc = "rd_i" -> St(f, [t EXCEPT !.in = f.i, !.pc = "rd_o"])
    [] t.pc = "rd_o" ->
         LET cnt == U32(t.in - f.o) IN
         IF cnt < f.cap THEN St(f, [t EXCEPT !.out = f.o, !.pc = "idx"])
         ELSE St(f, [t EXCEPT !.out = f.o, !.pc = "rd_i"])
    [] t.pc = "idx" ->
         St(f, [t EXCEPT !.idx = f.i, !.pc = "xfer", !.k = 0, !.n = 1,
                         !.pub = "pending"])
    [] t.pc = "xfer" ->
         IF ~early /\ t.k < t.n
         THEN St([f EXCEPT !.buf[BitAnd(t.idx, f.msk)] = t.e],
                 Finish([t EXCEPT !.k = 1]))
         ELSE IF t.pub = "pending"
         THEN St(f, [t EXCEPT !.tmp = f.i, !.pub = "read"])
         ELSE St([f EXCEPT !.i = U32(t.tmp + 1)],
                 Finish([t EXCEPT !.pub = "done"]))

\* gfifo_push: cnt = f->i - f->o; if (cnt < f->cap) { idx = f->i;
\* f->buf[idx & f->msk] = *e; f->i++; return true; } return false;
gfifo_push_step(f, t, early) ==
  CASE t.pc = "rd_i" -> St(f, [t EXCEPT !.in = f.i, !.pc = "rd_o"])
    [] t.pc = "rd_o" ->
         LET cnt == U32(t.in - f.o) IN
         IF cnt < f.cap THEN St(f, [t EXCEPT !.out = f.o, !.pc = "idx"])
         ELSE St(f, Return([t EXCEPT !.out = f.o], FALSE))
    [] t.pc = "idx" ->
         St(f, [t EXCEPT !.idx = f.i, !.pc = "xfer", !.k = 0, !.n = 1,
                         !.pub = "pending"])
    [] t.pc = "xfer" ->
         IF ~early /\ t.k < t.n
         THEN St([f EXCEPT !.buf[BitAnd(t.idx, f.msk)] = t.e],
                 Finish([t EXCEPT !.k = 1]))
         ELSE IF t.pub = "pending"
         THEN St(f, [t EXCEPT !.tmp = f.i, !.pub = "read"])
         ELSE St([f EXCEPT !.i = U32(t.tmp + 1)],
                 Finish([t EXCEPT !.pub = "done"]))

\* gfifo_pop: cnt = f->i - f->o; if (cnt > 0) { idx = f->o;
\* *e = f->buf[idx & f->msk]; f->o++; return true; } return false;
gfifo_pop_step(f, t, early) ==
  CASE t.pc = "rd_i" -> St(f, [t EXCEPT !.in = f.i, !.pc = "rd_o"])
    [] t.pc = "rd_o" ->
         LET cnt == U32(t.in - f.o) IN
         IF cnt > 0 THEN St(f, [t EXCEPT !.out = f.o, !.pc = "idx"])
         ELSE St(f, Return([t EXCEPT !.out = f.o], FALSE))
    [] t.pc = "idx" ->
         St(f, [t EXCEPT !.idx = f.o, !.pc = "xfer", !.k = 0, !.n = 1,
                         !.pub = "pending"])
    [] t.pc = "xfer" ->
         IF ~early /\ t.k < t.n
         THEN St(f, Finish([t EXCEPT !.e = f.buf[BitAnd(t.idx, f.msk)],
                                     !.k = 1]))
         ELSE IF t.pub = "pending"
         THEN St(f, [t EXCEPT !.tmp = f.o, !.pub = "read"])
         ELSE St([f EXCEPT !.o = U32(t.tmp + 1)],
                 Finish([t EXCEPT !.pub = "done"]))

\* gfifo_drop: cnt = f->i - f->o; if (cnt > 0) { f->o++; return true; }
\* return false;
gfifo_drop_step(f, t, early) ==
  CASE t.pc = "rd_i" -> St(f, [t EXCEPT !.in = f.i, !.pc = "rd_o"])
    [] t.pc = "rd_o" ->
         LET cnt == U32(t.in - f.o) IN
         IF cnt > 0
         THEN St(f, [t EXCEPT !.out = f.o, !.pc = "xfer", !.k = 0, !.n = 0,
                              !.pub = "pending"])
         ELSE St(f, Return([t EXCEPT !.out = f.o], FALSE))
    [] t.pc = "xfer" ->
         IF t.pub = "pending"
         THEN St(f, [t EXCEPT !.tmp = f.o, !.pub = "read"])
         ELSE St([f EXCEPT !.o = U32(t.tmp + 1)],
                 Finish([t EXCEPT !.pub = "done"]))

\* gfifo_peek: cnt = f->i - f->o; if (cnt > 0) { idx = f->o;
\* *e = f->buf[idx & f->msk]; return true; } return false;
gfifo_peek_step(f, t, early) ==
  CASE t.pc = "rd_i" -> St(f, [t EXCEPT !.in = f.i, !.pc = "rd_o"])
    [] t.pc = "rd_o" ->
         LET cnt == U32(t.in - f.o) IN
         IF cnt > 0 THEN St(f, [t EXCEPT !.out = f.o, !.pc = "idx"])
         ELSE St(f, Return([t EXCEPT !.out = f.o], FALSE))
    [] t.pc = "idx" ->
         St(f, [t EXCEPT !.idx = f.o, !.pc = "xfer", !.k = 0, !.n = 1,
                         !.pub = "none"])
    [] t.pc = "xfer" ->
         St(f, Finish([t EXCEPT !.e = f.buf[BitAnd(t.idx, f.msk)], !.k = 1]))

\* gfifo_peek_at: cnt = f->i - f->o; if (ofst < cnt) { idx = f->o;
\* *e = f->buf[(idx + ofst) & f->msk]; return true; } return false;
gfifo_peek_at_step(f, t, early) ==
  CASE t.pc = "rd_i" -> St(f, [t EXCEPT !.in = f.i, !.pc = "rd_o"])
    [] t.pc = "rd_o" ->
         LET cnt == U32(t.in - f.o) IN
         IF t.ofst < cnt THEN St(f, [t EXCEPT !.out = f.o, !.pc = "idx"])
         ELSE St(f, Return([t EXCEPT !.out = f.o], FALSE))
    [] t.pc = "idx" ->
         St(f, [t EXCEPT !.idx = f.o, !.pc = "xfer", !.k = 0, !.n = 1,
                         !.pub = "none"])
    [] t.pc = "xfer" ->
         St(f, Finish([t EXCEPT
                         !.e = f.buf[BitAnd(U32(t.idx + t.ofst), f.msk)],
                         !.k = 1]))

\* gfifo_push_array: in = f->i; out = f->o; ...; the two memcpy() calls copy
\* arr[0 .. l1-1] to buf[ofst ..] and arr[l1 .. len-1] to buf[0 ..], one
\* element per step; f->i = in + len is a single store.
gfifo_push_array_step(f, t, early) ==
  CASE t.pc = "rd_i" -> St(f, [t EXCEPT !.in = f.i, !.pc = "rd_o"])
    [] t.pc = "rd_o" ->
         LET in  == t.in
             out == f.o
             cap == f.cap
             msk == f.msk
             spc == U32(cap - U32(in - out))
             ofst == BitAnd(in, msk)
             l2e  == U32(cap - ofst)
             l1   == IF t.len < l2e THEN t.len ELSE l2e
         IN
         IF t.len = 0 THEN St(f, Return([t EXCEPT !.out = out], TRUE))
         ELSE IF t.len > spc THEN St(f, Return([t EXCEPT !.out = out], FALSE))
         ELSE St(f, [t EXCEPT !.out = out, !.pofs = ofst, !.l1 = l1,
                              !.pc = "xfer", !.k = 0, !.n = t.len,
                              !.pub = "pending"])
    [] t.pc = "xfer" ->
         IF ~early /\ t.k < t.n
         THEN LET slot == IF t.k < t.l1 THEN t.pofs + t.k ELSE t.k - t.l1 IN
              St([f EXCEPT !.buf = Memcpy(f.buf, slot, t.arr, t.k, 1)],
                 Finish([t EXCEPT !.k = t.k + 1]))
         ELSE St([f EXCEPT !.i = U32(t.in + t.len)],
                 Finish([t EXCEPT !.pub = "done"]))

\* gfifo_pop_array: in = f->i; out = f->o; ...; the two memcpy() calls copy
\* buf[ofst ..] to arr[0 .. l1-1] and buf[0 ..] to arr[l1 .. len-1], one
\* element per step; f->o = out + len is a single store.
gfifo_pop_array_step(f, t, early) ==
  CASE t.pc = "rd_i" -> St(f, [t EXCEPT !.in = f.i, !.pc = "rd_o"])
    [] t.pc = "rd_o" ->
         LET in  == t.in
             out == f.o
             cap == f.cap
             msk == f.msk
             cnt == U32(in - out)
             ofst == BitAnd(out, msk)
             l2e  == U32(cap - ofst)
             l1   == IF t.len < l2e THEN t.len ELSE l2e
         IN
         IF t.len = 0 THEN St(f, Return([t EXCEPT !.out = out], TRUE))
         ELSE IF cnt < t.len THEN St(f, Return([t EXCEPT !.out = out], FALSE))
         ELSE St(f, [t EXCEPT !.out = out, !.pofs = ofst, !.l1 = l1,
                              !.pc = "xfer", !.k = 0, !.n = t.len,
                              !.pub = "pending"])
    [] t.pc = "xfer" ->
         IF ~early /\ t.k < t.n
         THEN LET slot == IF t.k < t.l1 THEN t.pofs + t.k ELSE t.k - t.l1 IN
              St(f, Finish([t EXCEPT !.arr = Memcpy(t.arr, t.k, f.buf, slot, 1),
                                     !.k = t.k + 1]))
         ELSE St([f EXCEPT !.o = U32(t.out + t.len)],
                 Finish([t EXCEPT !.pub = "done"]))

\* void gfifo_reset(f), f->i = f->o = 0: two stores of 0, unsequenced, so
\* the build performs them in either order; t.first names the index stored
\* first.
gfifo_reset_step(f, t) ==
  LET store(x) == IF x = "i" THEN [f EXCEPT !.i = 0] ELSE [f EXCEPT !.o = 0]
      other == IF t.first = "i" THEN "o" ELSE "i"
  IN CASE t.pc = "first" -> St(store(t.first), [t EXCEPT !.pc = "second"])
       [] t.pc = "second" -> St(store(other), [t EXCEPT !.pc = "idle"])

\* ------------------------------------- inc/sfifo.h, one access at a time
\* sfifo_push: cnt = f->i - f->o; if (cnt < f->cap) { idx = f->i;
\* f->buf[idx & f->msk] = *e; f->i++; return true; } return false;
sfifo_push_step(f, t, early) ==
  CASE t.pc = "rd_i" -> St(f, [t EXCEPT !.in = f.i, !.pc = "rd_o"])
    [] t.pc = "rd_o" ->
         LET cnt == U32(t.in - f.o) IN
         IF cnt < f.cap THEN St(f, [t EXCEPT !.out = f.o, !.pc = "idx"])
         ELSE St(f, Return([t EXCEPT !.out = f.o], FALSE))
    [] t.pc = "idx" ->
         St(f, [t EXCEPT !.idx = f.i, !.pc = "xfer", !.k = 0, !.n = 1,
                         !.pub = "pending"])
    [] t.pc = "xfer" ->
         IF ~early /\ t.k < t.n
         THEN St([f EXCEPT !.buf[BitAnd(t.idx, f.msk)] = t.e],
                 Finish([t EXCEPT !.k = 1]))
         ELSE IF t.pub = "pending"
         THEN St(f, [t EXCEPT !.tmp = f.i, !.pub = "read"])
         ELSE St([f EXCEPT !.i = U32(t.tmp + 1)],
                 Finish([t EXCEPT !.pub = "done"]))

\* sfifo_pop: cnt = f->i - f->o; if (cnt > 0) { idx = f->o;
\* *e = f->buf[idx & f->msk]; f->o++; return true; } return false;
sfifo_pop_step(f, t, early) ==
  CASE t.pc = "rd_i" -> St(f, [t EXCEPT !.in = f.i, !.pc = "rd_o"])
    [] t.pc = "rd_o" ->
         LET cnt == U32(t.in - f.o) IN
         IF cnt > 0 THEN St(f, [t EXCEPT !.out = f.o, !.pc = "idx"])
         ELSE St(f, Return([t EXCEPT !.out = f.o], FALSE))
    [] t.pc = "idx" ->
         St(f, [t EXCEPT !.idx = f.o, !.pc = "xfer", !.k = 0, !.n = 1,
                         !.pub = "pending"])
    [] t.pc = "xfer" ->
         IF ~early /\ t.k < t.n
         THEN St(f, Finish([t EXCEPT !.e = f.buf[BitAnd(t.idx, f.msk)],
                                     !.k = 1]))
         ELSE IF t.pub = "pending"
         THEN St(f, [t EXCEPT !.tmp = f.o, !.pub = "read"])
         ELSE St([f EXCEPT !.o = U32(t.tmp + 1)],
                 Finish([t EXCEPT !.pub = "done"]))

\* sfifo_drop: cnt = f->i - f->o; if (cnt > 0) { f->o++; return true; }
\* return false;
sfifo_drop_step(f, t, early) ==
  CASE t.pc = "rd_i" -> St(f, [t EXCEPT !.in = f.i, !.pc = "rd_o"])
    [] t.pc = "rd_o" ->
         LET cnt == U32(t.in - f.o) IN
         IF cnt > 0
         THEN St(f, [t EXCEPT !.out = f.o, !.pc = "xfer", !.k = 0, !.n = 0,
                              !.pub = "pending"])
         ELSE St(f, Return([t EXCEPT !.out = f.o], FALSE))
    [] t.pc = "xfer" ->
         IF t.pub = "pending"
         THEN St(f, [t EXCEPT !.tmp = f.o, !.pub = "read"])
         ELSE St([f EXCEPT !.o = U32(t.tmp + 1)],
                 Finish([t EXCEPT !.pub = "done"]))

\* sfifo_peek: cnt = f->i - f->o; if (cnt > 0) { idx = f->o;
\* *e = f->buf[idx & f->msk]; return true; } return false;
sfifo_peek_step(f, t, early) ==
  CASE t.pc = "rd_i" -> St(f, [t EXCEPT !.in = f.i, !.pc = "rd_o"])
    [] t.pc = "rd_o" ->
         LET cnt == U32(t.in - f.o) IN
         IF cnt > 0 THEN St(f, [t EXCEPT !.out = f.o, !.pc = "idx"])
         ELSE St(f, Return([t EXCEPT !.out = f.o], FALSE))
    [] t.pc = "idx" ->
         St(f, [t EXCEPT !.idx = f.o, !.pc = "xfer", !.k = 0, !.n = 1,
                         !.pub = "none"])
    [] t.pc = "xfer" ->
         St(f, Finish([t EXCEPT !.e = f.buf[BitAnd(t.idx, f.msk)], !.k = 1]))

\* sfifo_peek_at: cnt = f->i - f->o; if (ofst < cnt) { idx = f->o;
\* *e = f->buf[(idx + ofst) & f->msk]; return true; } return false;
sfifo_peek_at_step(f, t, early) ==
  CASE t.pc = "rd_i" -> St(f, [t EXCEPT !.in = f.i, !.pc = "rd_o"])
    [] t.pc = "rd_o" ->
         LET cnt == U32(t.in - f.o) IN
         IF t.ofst < cnt THEN St(f, [t EXCEPT !.out = f.o, !.pc = "idx"])
         ELSE St(f, Return([t EXCEPT !.out = f.o], FALSE))
    [] t.pc = "idx" ->
         St(f, [t EXCEPT !.idx = f.o, !.pc = "xfer", !.k = 0, !.n = 1,
                         !.pub = "none"])
    [] t.pc = "xfer" ->
         St(f, Finish([t EXCEPT
                         !.e = f.buf[BitAnd(U32(t.idx + t.ofst), f.msk)],
                         !.k = 1]))

\* sfifo_push_array: in = f->i; out = f->o; ...; the two memcpy() calls copy
\* arr[0 .. l1-1] to buf[ofst ..] and arr[l1 .. len-1] to buf[0 ..], one
\* element per step; f->i = in + len is a single store.
sfifo_push_array_step(f, t, early) ==
  CASE t.pc = "rd_i" -> St(f, [t EXCEPT !.in = f.i, !.pc = "rd_o"])
    [] t.pc = "rd_o" ->
         LET in  == t.in
             out == f.o
             cap == f.cap
             msk == f.msk
             spc == U32(cap - U32(in - out))
             ofst == BitAnd(in, msk)
             l2e  == U32(cap - ofst)
             l1   == IF t.len < l2e THEN t.len ELSE l2e
         IN
         IF t.len = 0 THEN St(f, Return([t EXCEPT !.out = out], TRUE))
         ELSE IF t.len > spc THEN St(f, Return([t EXCEPT !.out = out], FALSE))
         ELSE St(f, [t EXCEPT !.out = out, !.pofs = ofst, !.l1 = l1,
                              !.pc = "xfer", !.k = 0, !.n = t.len,
                              !.pub = "pending"])
    [] t.pc = "xfer" ->
         IF ~early /\ t.k < t.n
         THEN LET slot == IF t.k < t.l1 THEN t.pofs + t.k ELSE t.k - t.l1 IN
              St([f EXCEPT !.buf = Memcpy(f.buf, slot, t.arr, t.k, 1)],
                 Finish([t EXCEPT !.k = t.k + 1]))
         ELSE St([f EXCEPT !.i = U32(t.in + t.len)],
                 Finish([t EXCEPT !.pub = "done"]))

\* sfifo_pop_array: in = f->i; out = f->o; ...; the two memcpy() calls copy
\* buf[ofst ..] to arr[0 .. l1-1] and buf[0 ..] to arr[l1 .. len-1], one
\* element per step; f->o = out + len is a single store.
sfifo_pop_array_step(f, t, early) ==
  CASE t.pc = "rd_i" -> St(f, [t EXCEPT !.in = f.i, !.pc = "rd_o"])
    [] t.pc = "rd_o" ->
         LET in  == t.in
             out == f.o
             cap == f.cap
             msk == f.msk
             cnt == U32(in - out)
             ofst == BitAnd(out, msk)
             l2e  == U32(cap - ofst)
             l1   == IF t.len < l2e THEN t.len ELSE l2e
         IN
         IF t.len = 0 THEN St(f, Return([t EXCEPT !.out = out], TRUE))
         ELSE IF cnt < t.len THEN St(f, Return([t EXCEPT !.out = out], FALSE))
         ELSE St(f, [t EXCEPT !.out = out, !.pofs = ofst, !.l1 = l1,
                              !.pc = "xfer", !.k = 0, !.n = t.len,
                              !.pub = "pending"])
    [] t.pc = "xfer" ->
         IF ~early /\ t.k < t.n
         THEN LET slot == IF t.k < t.l1 THEN t.pofs + t.k ELSE t.k - t.l1 IN
              St(f, Finish([t EXCEPT !.arr = Memcpy(t.arr, t.k, f.buf, slot, 1),
                                     !.k = t.k + 1]))
         ELSE St([f EXCEPT !.o = U32(t.out + t.len)],
                 Finish([t EXCEPT !.pub = "done"]))

\* void sfifo_reset(f), f->i = f->o = 0
sfifo_reset_step(f, t) ==
  LET store(x) == IF x = "i" THEN [f EXCEPT !.i = 0] ELSE [f EXCEPT !.o = 0]
      other == IF t.first = "i" THEN "o" ELSE "i"
  IN CASE t.pc = "first" -> St(store(t.first), [t EXCEPT !.pc = "second"])
       [] t.pc = "second" -> St(store(other), [t EXCEPT !.pc = "idle"])

\* ------------------------- is_empty, is_full, count, one access at a time
\* The operands of f->i == f->o and of f->i - f->o are unsequenced: the
\* build reads i then o (pc rd_i, rd_o) or o then i (pc rd_o_first,
\* rd_i_last). Sampled(f, t) is frame t after its next read; its pc is
\* "both" once it holds both samples.
Sampled(f, t) ==
  CASE t.pc = "rd_i" -> [t EXCEPT !.in = f.i, !.pc = "rd_o"]
    [] t.pc = "rd_o" -> [t EXCEPT !.out = f.o, !.pc = "both"]
    [] t.pc = "rd_o_first" -> [t EXCEPT !.out = f.o, !.pc = "rd_i_last"]
    [] t.pc = "rd_i_last" -> [t EXCEPT !.in = f.i, !.pc = "both"]

\* gfifo_is_empty: return f->i == f->o;
gfifo_is_empty_step(f, t, early) ==
  LET s == Sampled(f, t) IN
  IF s.pc = "both" THEN St(f, Return(s, s.in = s.out)) ELSE St(f, s)

\* gfifo_is_full: return (f->i - f->o) == f->cap;
gfifo_is_full_step(f, t, early) ==
  LET s == Sampled(f, t) IN
  IF s.pc = "both" THEN St(f, Return(s, U32(s.in - s.out) = f.cap))
  ELSE St(f, s)

\* gfifo_count: return (f->i - f->o);
gfifo_count_step(f, t, early) ==
  LET s == Sampled(f, t) IN
  IF s.pc = "both"
  THEN St(f, Return([s EXCEPT !.cnt = U32(s.in - s.out)], TRUE))
  ELSE St(f, s)

\* sfifo_is_empty: return f->i == f->o;
sfifo_is_empty_step(f, t, early) ==
  LET s == Sampled(f, t) IN
  IF s.pc = "both" THEN St(f, Return(s, s.in = s.out)) ELSE St(f, s)

\* sfifo_is_full: return (f->i - f->o) == f->cap;
sfifo_is_full_step(f, t, early) ==
  LET s == Sampled(f, t) IN
  IF s.pc = "both" THEN St(f, Return(s, U32(s.in - s.out) = f.cap))
  ELSE St(f, s)

\* sfifo_count that returns the difference of the samples masked.
sfifo_count_step_by_mask(f, t, early) ==
  LET s == Sampled(f, t) IN
  IF s.pc = "both"
  THEN St(f, Return([s EXCEPT !.cnt = BitAnd(U32(s.in - s.out), f.msk)],
                    TRUE))
  ELSE St(f, s)

\* sfifo_count: return (f->i - f->o);
sfifo_count_step(f, t, early) ==
  LET s == Sampled(f, t) IN
  IF s.pc = "both"
  THEN St(f, Return([s EXCEPT !.cnt = U32(s.in - s.out)], TRUE))
  ELSE St(f, s)

\* ------------------------------------------------------------ the calls
VARIABLES
  fifo,   \* fifo[fl]: the queue object of flavor fl
  pre,    \* pre[fl]: the queue object as the last call found it
  call,   \* the last call: its name and arguments
  res,    \* res[fl]: what the last call returned and wrote to the caller
  next,   \* the next fresh value the caller will push
  build,  \* how the build orders a call's slot copies and its index store
  prod,   \* prod[fl]: the frame of the producer's call
  cons,   \* cons[fl]: the frame of the consumer's call
  pushed, \* pushed[fl]: the values whose push has advanced the head, in order
  got,    \* got[fl]: what the consumer's successful pop, pop_array and drop
          \* calls obtained, in order
  origin, \* the value both counters started from
  resets, \* the number of reset calls made
  held,   \* held[fl]: the values accepted and not yet removed, oldest first
  rst     \* the frame of a reset call made while the two threads run

vars == <<fifo, pre, call, res, next, build, prod, cons, pushed, got, origin, resets, held, rst>>

\* The variables of the two-thread run, which a single caller leaves alone.
threads == <<build, prod, cons, pushed, got, rst>>

\* A call: op is the function, e the value *e (push) or the content of the
\* caller's *e (pop, peek, peek_at), ofst peek_at's offset, arr and len the
\* array arguments.
Call(op, e, ofst, arr, len) ==
  [op |-> op, e |-> e, ofst |-> ofst, arr |-> arr, len |-> len]

\* The function of flavor fl that call c names, applied to queue f.
Apply(fl, f, c) ==
  CASE c.op = "reset" ->
         IF fl = "gfifo" THEN gfifo_reset(f) ELSE sfifo_reset(f)
    [] c.op = "is_empty" ->
         IF fl = "gfifo" THEN gfifo_is_empty(f) ELSE sfifo_is_empty(f)
    [] c.op = "is_full" ->
         IF fl = "gfifo" THEN gfifo_is_full(f) ELSE sfifo_is_full(f)
    [] c.op = "count" ->
         IF fl = "gfifo" THEN gfifo_count(f) ELSE sfifo_count(f)
    [] c.op = "push" ->
         IF fl = "gfifo" THEN gfifo_push(f, c.e) ELSE sfifo_push(f, c.e)
    [] c.op = "pop" ->
         IF fl = "gfifo" THEN gfifo_pop(f, c.e) ELSE sfifo_pop(f, c.e)
    [] c.op = "drop" ->
         IF fl = "gfifo" THEN gfifo_drop(f) ELSE sfifo_drop(f)
    [] c.op = "peek" ->
         IF fl = "gfifo" THEN gfifo_peek(f, c.e) ELSE sfifo_peek(f, c.e)
    [] c.op = "peek_at" ->
         IF fl = "gfifo" THEN gfifo_peek_at(f, c.e, c.ofst)
                         ELSE sfifo_peek_at(f, c.e, c.ofst)
    [] c.op = "push_array" ->
         IF fl = "gfifo" THEN gfifo_push_array(f, c.arr, c.len)
                         ELSE sfifo_push_array(f, c.arr, c.len)
    [] c.op = "pop_array" ->
         IF fl = "gfifo" THEN gfifo_pop_array(f, c.arr, c.len)
                         ELSE sfifo_pop_array(f, c.arr, c.len)

\* What the caller sees of a result.
Seen(r) == [ret |-> r.ret, cnt |-> r.cnt, e |-> r.e, arr |-> r.arr]

\* What is stored after call c returned ret on a queue that stored q: push
\* and push_array add what they accepted at the back, pop, drop and pop_array
\* remove from the front, reset discards everything.
Kept(q, c, ret) ==
  CASE c.op = "reset" -> <<>>
    [] c.op = "push" /\ ret -> Append(q, c.e)
    [] c.op = "push_array" /\ ret -> q \o ArrSeq(c.arr, c.len)
    [] c.op \in {"pop", "drop"} /\ ret -> IF q = <<>> THEN q ELSE Tail(q)
    [] c.op = "pop_array" /\ ret -> SubSeq(q, c.len + 1, Len(q))
    [] OTHER -> q

\* Call c made on the queue of each flavor; taken values are the n fresh
\* ones the call offered, when a queue accepted them.
Do(c, n) ==
  LET r == [fl \in Flavor |-> Apply(fl, fifo[fl], c)] IN
  /\ pre' = fifo
  /\ call' = c
  /\ fifo' = [fl \in Flavor |-> r[fl].f]
  /\ res' = [fl \in Flavor |-> Seen(r[fl])]
  /\ next' = IF \E fl \in Flavor : r[fl].ret THEN next + n ELSE next
  /\ resets' = IF c.op = "reset" THEN resets + 1 ELSE resets
  /\ held' = [fl \in Flavor |-> Kept(held[fl], c, r[fl].ret)]
  /\ UNCHANGED <<threads, origin>>

\* The sizes 1 .. max a queue of either flavor can be set up with: gfifo's
\* init accepts them and DECLARE_SFIFO_TYPE compiles with them.
Sizes(max) ==
  {size \in 1..max :
     /\ gfifo_init(gfifo_zero, Ptr(FALSE, ZeroArr(size)), size).ret
     /\ sfifo_static_assert(size)}

Capacities == Sizes(MaxCap)

\* The array next, next+1, ..., next+len-1 of fresh values.
Fresh(len) == [k \in 0..(len - 1) |-> next + k]

\* A queue whose counters both stand at base: what base push/pop pairs of
\* the value ZeroInit leave behind.
StartAt(f, base) == [f EXCEPT !.i = base, !.o = base]

StartIndex == {0, UINT32_MOD - WrapLead}

\* The queues after a successful init with capacity size, the counters at
\* base, before any call.
Started(size, base) ==
  /\ fifo = [fl \in Flavor |->
               IF fl = "gfifo"
               THEN StartAt(gfifo_init(gfifo_zero,
                                       Ptr(FALSE, ZeroArr(size)), size).f,
                            base)
               ELSE StartAt(sfifo_init(size,
                                       Ptr(FALSE, sfifo_zero(size))).f,
                            base)]
  /\ pre = fifo
  /\ call = Call("init", ZeroInit, 0, ZeroArr(0), 0)
  /\ res = [fl \in Flavor |->
              [ret |-> TRUE, cnt |-> 0, e |-> ZeroInit, arr |-> ZeroArr(0)]]
  /\ next = 1
  /\ origin = base
  /\ resets = 0
  /\ held = [fl \in Flavor |-> <<>>]
  /\ rst = [pc |-> "idle", first |-> "o", busy |-> FALSE]
  /\ prod = [fl \in Flavor |-> Return(Frame("init", ZeroInit, 0, ZeroArr(0), 0), TRUE)]
  /\ cons = prod
  /\ pushed = [fl \in Flavor |-> <<>>]
  /\ got = [fl \in Flavor |-> <<>>]

Init ==
  \E size \in Capacities, base \in StartIndex :
    /\ Started(size, base)
    /\ build = "ordered"

\* The operations are called on a queue that init has set up.
Ready == \A fl \in Flavor : fifo[fl].cap > 0

Reset ==
  /\ Ready
  /\ resets < MaxReset
  /\ Do(Call("reset", ZeroInit, 0, ZeroArr(0), 0), 0)
IsEmpty ==
  /\ Ready
  /\ Do(Call("is_empty", ZeroInit, 0, ZeroArr(0), 0), 0)
IsFull ==
  /\ Ready
  /\ Do(Call("is_full", ZeroInit, 0, ZeroArr(0), 0), 0)
Count ==
  /\ Ready
  /\ Do(Call("count", ZeroInit, 0, ZeroArr(0), 0), 0)
Push ==
  /\ Ready
  /\ next <= MaxPush
  /\ Do(Call("push", next, 0, ZeroArr(0), 0), 1)
Pop ==
  /\ Ready
  /\ Do(Call("pop", ZeroInit, 0, ZeroArr(0), 0), 0)
Drop ==
  /\ Ready
  /\ Do(Call("drop", ZeroInit, 0, ZeroArr(0), 0), 0)
Peek ==
  /\ Ready
  /\ Do(Call("peek", ZeroInit, 0, ZeroArr(0), 0), 0)
PeekAt ==
  /\ Ready
  /\ \E ofst \in 0..MaxLen :
       Do(Call("peek_at", ZeroInit, ofst, ZeroArr(0), 0), 0)
PushArray ==
  /\ Ready
  /\ \E len \in 0..MaxLen :
       /\ next + len - 1 <= MaxPush
       /\ Do(Call("push_array", ZeroInit, 0, Fresh(len), len), len)
PopArray ==
  /\ Ready
  /\ \E len \in 0..MaxLen :
       Do(Call("pop_array", ZeroInit, 0, ZeroArr(len), len), 0)

Next ==
  \/ Reset \/ IsEmpty \/ IsFull \/ Count
  \/ Push \/ Pop \/ Drop \/ Peek \/ PeekAt
  \/ PushArray \/ PopArray

Spec == Init /\ [][Next]_vars

\* ------------------------------- transfers with any request length
\* The request lengths above the capacity cap, up to the largest value of
\* the counter type.
LongLengths(cap) ==
  {cap + 1, UINT32_MOD \div 2, UINT32_MOD - cap, UINT32_MOD - 1}

\* A bulk call c whose len is more than its array of MaxLen elements holds,
\* made on the queue of each flavor; had a queue accepted it, what it took
\* or gave would be the elements the array has.
DoLong(c) ==
  LET r == [fl \in Flavor |-> Apply(fl, fifo[fl], c)] IN
  /\ pre' = fifo
  /\ call' = c
  /\ fifo' = [fl \in Flavor |-> r[fl].f]
  /\ res' = [fl \in Flavor |-> Seen(r[fl])]
  /\ next' = IF c.op = "push_array" /\ \E fl \in Flavor : r[fl].ret
             THEN next + MaxLen ELSE next
  /\ held' = [fl \in Flavor |->
                Kept(held[fl], [c EXCEPT !.len = MaxLen], r[fl].ret)]
  /\ UNCHANGED <<threads, origin, resets>>

PushArrayLong ==
  /\ Ready
  /\ \E len \in LongLengths(fifo["gfifo"].cap) :
       /\ len > MaxLen
       /\ DoLong(Call("push_array", ZeroInit, 0, Fresh(MaxLen), len))

PopArrayLong ==
  /\ Ready
  /\ \E len \in LongLengths(fifo["gfifo"].cap) :
       /\ len > MaxLen
       /\ DoLong(Call("pop_array", ZeroInit, 0, ZeroArr(MaxLen), len))

\* pop_array(f, arr, len) with an array of MaxLen elements, more than the
\* len asked for.
PopArrayPart ==
  /\ Ready
  /\ \E len \in 0..(MaxLen - 1) :
       Do(Call("pop_array", ZeroInit, 0, ZeroArr(MaxLen), len), 0)

\* The single and the bulk transfers and the peeks, the bulk ones with
\* request lengths from the whole range of the counter type.
NextBulk ==
  \/ Push \/ Pop \/ Peek \/ PeekAt
  \/ PushArray \/ PopArray
  \/ PushArrayLong \/ PopArrayLong \/ PopArrayPart

SpecBulk == Init /\ [][NextBulk]_vars

\* ------------------------------------------------------------ drop_multi
\* drop_multi(f, len) as flavor fl has it; the one definition there is is
\* gfifo's.
DropMultiOf(fl, f, len) ==
  IF "drop_multi" \in (IF fl = "gfifo" THEN gfifo_functions
                                       ELSE sfifo_functions)
  THEN gfifo_drop_multi(f, len)
  ELSE NoFunction(f)

DropMulti ==
  /\ Ready
  /\ \E len \in 0..MaxLen :
       LET r == [fl \in Flavor |-> DropMultiOf(fl, fifo[fl], len)] IN
       /\ pre' = fifo
       /\ call' = Call("drop_multi", ZeroInit, 0, ZeroArr(0), len)
       /\ fifo' = [fl \in Flavor |-> r[fl].f]
       /\ res' = [fl \in Flavor |-> Seen(r[fl])]
       /\ held' = [fl \in Flavor |->
                     IF r[fl].ret
                     THEN SubSeq(held[fl], len + 1, Len(held[fl]))
                     ELSE held[fl]]
       /\ UNCHANGED <<next, threads, origin, resets>>

NextDropMulti == Push \/ PushArray \/ Drop \/ DropMulti

SpecDropMulti == Init /\ [][NextDropMulti]_vars

\* ------------------------------------------------- setting a queue up
\* A set-up call: op with the given size; buf is the buffer (gfifo's init)
\* or the queue object (sfifo's init) the call is handed.
SetupCall(op, size, buf) == [op |-> op, size |-> size, buf |-> buf]

\* Set-up call c with result r made on the object of flavor fl.
SetupDo(fl, c, r) ==
  /\ pre' = fifo
  /\ call' = c
  /\ fifo' = [fifo EXCEPT ![fl] = r.f]
  /\ res' = [res EXCEPT ![fl] = Seen(r)]
  /\ UNCHANGED <<next, threads, origin, resets, held>>

\* Objects in static storage that no call has touched; no sfifo type is
\* declared yet.
Untouched ==
  /\ fifo = [fl \in Flavor |->
               IF fl = "gfifo" THEN gfifo_zero ELSE sfifo_zero(0)]
  /\ pre = fifo
  /\ call = SetupCall("start", 0, Ptr(TRUE, ZeroArr(0)))
  /\ res = [fl \in Flavor |->
              [ret |-> TRUE, cnt |-> 0, e |-> ZeroInit, arr |-> ZeroArr(0)]]
  /\ next = 1
  /\ origin = 0
  /\ resets = 0
  /\ held = [fl \in Flavor |-> <<>>]
  /\ rst = [pc |-> "idle", first |-> "o", busy |-> FALSE]
  /\ prod = [fl \in Flavor |-> Return(Frame("init", ZeroInit, 0, ZeroArr(0), 0), TRUE)]
  /\ cons = prod
  /\ pushed = [fl \in Flavor |-> <<>>]
  /\ got = [fl \in Flavor |-> <<>>]

\* Before the set-up call: untouched objects, or queues set up earlier whose
\* counters have moved.
InitSetup ==
  /\ build = "ordered"
  /\ \/ Untouched
     \/ \E size \in Capacities, base \in StartIndex : Started(size, base)

\* No set-up call has been made in this run.
Unused == call.op \in {"start", "init"}

\* gfifo_<name>_init(&fifo, buf, size) with any size and a NULL or real buf.
GfifoInit ==
  /\ Unused
  /\ \E size \in 0..MaxSize, null \in BOOLEAN :
       LET buf == Ptr(null, IF null THEN ZeroArr(0) ELSE ZeroArr(size)) IN
       SetupDo("gfifo", SetupCall("gfifo_init", size, buf),
               gfifo_init(fifo["gfifo"], buf, size))

\* DECLARE_SFIFO_TYPE(name, type, size) compiled, and when it compiles an
\* object of the type defined in static storage.
SfifoDeclare ==
  /\ Unused
  /\ \E size \in 0..MaxSize :
       \E ok \in sfifo_declare(size) :
         SetupDo("sfifo", SetupCall("declare", size, Ptr(TRUE, ZeroArr(0))),
                 Result(ok, 0, ZeroInit, ZeroArr(0),
                        IF ok THEN sfifo_zero(size) ELSE fifo["sfifo"]))

\* sfifo_<name>_<size>_init(f) with f NULL or the object: the one just
\* defined, or a queue of that type set up earlier and used since.
SfifoInit ==
  /\ \/ call.op = "declare" /\ res["sfifo"].ret
     \/ call.op = "init"
  /\ \E null \in BOOLEAN :
       LET f == Ptr(null, fifo["sfifo"])
           size == IF call.op = "declare" THEN call.size
                                          ELSE fifo["sfifo"].cap
       IN SetupDo("sfifo", SetupCall("sfifo_init", size, f),
                  sfifo_init(size, f))

NextSetup == GfifoInit \/ SfifoDeclare \/ SfifoInit

SpecSetup == InitSetup /\ [][NextSetup]_vars

\* --------------------------------------------- one producer, one consumer
\* The producer thread calls push and push_array, the consumer thread calls
\* pop, pop_array, drop, peek and peek_at; the two run concurrently and
\* every step of SpecSPSC is one access of one thread.
Builds == {"ordered", "reordered"}

SpscCapacities == Sizes(SpscCap)

\* The next step of the call in frame t on queue f.
StepOf(fl, f, t, early) ==
  CASE t.op = "push" ->
         IF fl = "gfifo" THEN gfifo_push_step(f, t, early)
                         ELSE sfifo_push_step(f, t, early)
    [] t.op = "push_array" ->
         IF fl = "gfifo" THEN gfifo_push_array_step(f, t, early)
                         ELSE sfifo_push_array_step(f, t, early)
    [] t.op = "pop" ->
         IF fl = "gfifo" THEN gfifo_pop_step(f, t, early)
                         ELSE sfifo_pop_step(f, t, early)
    [] t.op = "pop_array" ->
         IF fl = "gfifo" THEN gfifo_pop_array_step(f, t, early)
                         ELSE sfifo_pop_array_step(f, t, early)
    [] t.op = "drop" ->
         IF fl = "gfifo" THEN gfifo_drop_step(f, t, early)
                         ELSE sfifo_drop_step(f, t, early)
    [] t.op = "peek" ->
         IF fl = "gfifo" THEN gfifo_peek_step(f, t, early)
                         ELSE sfifo_peek_step(f, t, early)
    [] t.op = "peek_at" ->
         IF fl = "gfifo" THEN gfifo_peek_at_step(f, t, early)
                         ELSE sfifo_peek_at_step(f, t, early)
    [] t.op = "is_empty" ->
         IF fl = "gfifo" THEN gfifo_is_empty_step(f, t, early)
                         ELSE sfifo_is_empty_step(f, t, early)
    [] t.op = "is_full" ->
         IF fl = "gfifo" THEN gfifo_is_full_step(f, t, early)
                         ELSE sfifo_is_full_step(f, t, early)
    [] t.op = "count" ->
         IF fl = "gfifo" THEN gfifo_count_step(f, t, early)
                         ELSE sfifo_count_step(f, t, early)

Idle(thread) == \A fl \in Flavor : thread[fl].pc = "idle"
Running(thread) == \A fl \in Flavor : thread[fl].pc # "idle"

\* The call's index store is still to come and so is one of its slot copies.
CanStoreEarly(thread) ==
  \A fl \in Flavor :
    /\ thread[fl].pc = "xfer"
    /\ thread[fl].k < thread[fl].n
    /\ thread[fl].pub \in {"pending", "read"}

\* The values a producer frame offers.
Offered(t) == IF t.op = "push" THEN <<t.e>> ELSE ArrSeq(t.arr, t.len)

\* What a finished consumer call has obtained.
Obtained(t) ==
  CASE t.op = "pop" -> <<[drop |-> FALSE, v |-> t.e]>>
    [] t.op = "drop" -> <<[drop |-> TRUE, v |-> ZeroInit]>>
    [] t.op = "pop_array" ->
         [k \in 1..t.len |-> [drop |-> FALSE, v |-> t.arr[k - 1]]]
    [] OTHER -> <<>>

InitSPSC ==
  \E size \in SpscCapacities, base \in StartIndex, b \in Builds :
    /\ Started(size, base)
    /\ build = b

\* The same call begun on the queue of each flavor.
Begin(t) == [fl \in Flavor |-> t]

CallPush ==
  /\ Idle(prod)
  /\ next <= SpscPush
  /\ prod' = Begin(Frame("push", next, 0, ZeroArr(0), 0))
  /\ UNCHANGED <<fifo, pre, call, res, next, build, cons, pushed, got, origin, resets, held, rst>>

CallPushArray ==
  /\ Idle(prod)
  /\ \E len \in 0..SpscLen :
       /\ next + len - 1 <= SpscPush
       /\ prod' = Begin(Frame("push_array", ZeroInit, 0, Fresh(len), len))
  /\ UNCHANGED <<fifo, pre, call, res, next, build, cons, pushed, got, origin, resets, held, rst>>

CallPop ==
  /\ Idle(cons)
  /\ cons' = Begin(Frame("pop", ZeroInit, 0, ZeroArr(0), 0))
  /\ UNCHANGED <<fifo, pre, call, res, next, build, prod, pushed, got, origin, resets, held, rst>>

CallPopArray ==
  /\ Idle(cons)
  /\ \E len \in 0..SpscLen :
       cons' = Begin(Frame("pop_array", ZeroInit, 0, ZeroArr(len), len))
  /\ UNCHANGED <<fifo, pre, call, res, next, build, prod, pushed, got, origin, resets, held, rst>>

CallDrop ==
  /\ Idle(cons)
  /\ cons' = Begin(Frame("drop", ZeroInit, 0, ZeroArr(0), 0))
  /\ UNCHANGED <<fifo, pre, call, res, next, build, prod, pushed, got, origin, resets, held, rst>>

CallPeek ==
  /\ Idle(cons)
  /\ cons' = Begin(Frame("peek", ZeroInit, 0, ZeroArr(0), 0))
  /\ UNCHANGED <<fifo, pre, call, res, next, build, prod, pushed, got, origin, resets, held, rst>>

CallPeekAt ==
  /\ Idle(cons)
  /\ \E ofst \in 0..SpscLen :
       cons' = Begin(Frame("peek_at", ZeroInit, ofst, ZeroArr(0), 0))
  /\ UNCHANGED <<fifo, pre, call, res, next, build, prod, pushed, got, origin, resets, held, rst>>

\* One access of the producer's call.
Produce(early) ==
  LET r == [fl \in Flavor |-> StepOf(fl, fifo[fl], prod[fl], early)]
      stored(fl) == prod[fl].pub # "done" /\ r[fl].t.pub = "done"
  IN
  /\ fifo' = [fl \in Flavor |-> r[fl].f]
  /\ prod' = [fl \in Flavor |-> r[fl].t]
  /\ pushed' = [fl \in Flavor |->
                  IF stored(fl) THEN pushed[fl] \o Offered(prod[fl])
                  ELSE pushed[fl]]
  /\ next' = IF \E fl \in Flavor : stored(fl)
             THEN next + Len(Offered(prod["gfifo"])) ELSE next
  /\ UNCHANGED <<pre, call, res, build, cons, got, origin, resets, held, rst>>

\* One access of the consumer's call.
Consume(early) ==
  LET r == [fl \in Flavor |-> StepOf(fl, fifo[fl], cons[fl], early)]
      returned(fl) == r[fl].t.pc = "idle" /\ r[fl].t.ret
  IN
  /\ fifo' = [fl \in Flavor |-> r[fl].f]
  /\ cons' = [fl \in Flavor |-> r[fl].t]
  /\ got' = [fl \in Flavor |->
               IF returned(fl) THEN got[fl] \o Obtained(r[fl].t) ELSE got[fl]]
  /\ UNCHANGED <<pre, call, res, next, build, prod, pushed, origin, resets, held, rst>>

ProducerStep ==
  /\ Running(prod)
  /\ Produce(FALSE)

ProducerStoresEarly ==
  /\ build = "reordered"
  /\ CanStoreEarly(prod)
  /\ Produce(TRUE)

ConsumerStep ==
  /\ Running(cons)
  /\ Consume(FALSE)

ConsumerStoresEarly ==
  /\ build = "reordered"
  /\ CanStoreEarly(cons)
  /\ Consume(TRUE)

NextSPSC ==
  \/ CallPush \/ CallPushArray
  \/ CallPop \/ CallPopArray \/ CallDrop \/ CallPeek \/ CallPeekAt
  \/ ProducerStep \/ ProducerStoresEarly
  \/ ConsumerStep \/ ConsumerStoresEarly

SpecSPSC == InitSPSC /\ [][NextSPSC]_vars

\* ------------------------------------ reset while the two threads run
\* reset is called once the queue is in use, at any point of the producer's
\* and of the consumer's call; the accesses of every call are performed in
\* the order of the source text.
InitReset ==
  \E size \in SpscCapacities :
    /\ Started(size, 0)
    /\ build = "ordered"

CallReset ==
  /\ rst.pc = "idle"
  /\ resets < MaxReset
  /\ \E first \in {"i", "o"} :
       rst' = [pc |-> "first", first |-> first, busy |-> FALSE]
  /\ resets' = resets + 1
  /\ UNCHANGED <<fifo, pre, call, res, next, build, prod, cons, pushed, got,
                 origin, held>>

\* One store of the reset call. When its second store is done the reset is
\* over: what is pushed and obtained is counted anew from there, and busy
\* tells whether a consumer call was under way at that point.
ResetStep ==
  /\ rst.pc # "idle"
  /\ LET r == [fl \in Flavor |->
                 IF fl = "gfifo" THEN gfifo_reset_step(fifo[fl], rst)
                                 ELSE sfifo_reset_step(fifo[fl], rst)]
         over == r["gfifo"].t.pc = "idle"
     IN /\ fifo' = [fl \in Flavor |-> r[fl].f]
        /\ rst' = [r["gfifo"].t EXCEPT !.busy = over /\ Running(cons)]
        /\ pushed' = IF over THEN [fl \in Flavor |-> <<>>] ELSE pushed
        /\ got' = IF over THEN [fl \in Flavor |-> <<>>] ELSE got
  /\ UNCHANGED <<pre, call, res, next, build, prod, cons, origin, resets, held>>

\* The consumer begins a call while it has obtained fewer than SpscPush
\* elements since the last reset.
MayObtain == \A fl \in Flavor : Len(got[fl]) < SpscPush

ConsumerCalls ==
  /\ MayObtain
  /\ (CallPop \/ CallPopArray)

NextReset ==
  \/ CallPush \/ CallPushArray
  \/ ConsumerCalls
  \/ ProducerStep \/ ConsumerStep
  \/ CallReset \/ ResetStep

SpecReset == InitReset /\ [][NextReset]_vars

\* ------------------------- the state queries while the two threads run
\* The producer calls push, push_array and, between them, is_empty, is_full
\* and count; the consumer calls pop, pop_array and the same queries; the
\* build has fixed the order of each query's two index reads.
Queries == {"is_empty", "is_full", "count"}
FirstRead == {"rd_i", "rd_o_first"}

ProducerAsks ==
  /\ Idle(prod)
  /\ \E op \in Queries, pc \in FirstRead :
       prod' = Begin([Frame(op, ZeroInit, 0, ZeroArr(0), 0) EXCEPT !.pc = pc])
  /\ UNCHANGED <<fifo, pre, call, res, next, build, cons, pushed, got, origin, resets, held, rst>>

ConsumerAsks ==
  /\ Idle(cons)
  /\ \E op \in Queries, pc \in FirstRead :
       cons' = Begin([Frame(op, ZeroInit, 0, ZeroArr(0), 0) EXCEPT !.pc = pc])
  /\ UNCHANGED <<fifo, pre, call, res, next, build, prod, pushed, got, origin, resets, held, rst>>

NextQuery ==
  \/ CallPush \/ CallPushArray \/ ProducerAsks
  \/ CallPop \/ CallPopArray \/ ConsumerAsks
  \/ ProducerStep \/ ProducerStoresEarly
  \/ ConsumerStep \/ ConsumerStoresEarly

SpecQuery == InitSPSC /\ [][NextQuery]_vars

\* ===================================================== claims under Spec
\* count() of queue f, as the code computes it.
CountOf(fl, f) ==
  Apply(fl, f, Call("count", ZeroInit, 0, ZeroArr(0), 0)).cnt

\* The elements of f from the tail to the head, oldest first.
Content(f) ==
  [k \in 1..U32(f.i - f.o) |-> f.buf[BitAnd(U32(f.o + (k - 1)), f.msk)]]

\* The first n elements of a sequence as an array laid over array a.
SeqArr(q, a, n) == [k \in DOMAIN a |-> IF k < n THEN q[k + 1] ELSE a[k]]

\* The abstract bounded queue: what call c returns, and the sequence it
\* leaves, on a queue holding sequence q with room for cap elements.
Abs(ret, cnt, e, arr, q) ==
  [ret |-> ret, cnt |-> cnt, e |-> e, arr |-> arr, q |-> q]

AbsApply(q, cap, c) ==
  CASE c.op = "reset"    -> Abs(TRUE, 0, ZeroInit, ZeroArr(0), <<>>)
    [] c.op = "is_empty" -> Abs(Len(q) = 0, 0, ZeroInit, ZeroArr(0), q)
    [] c.op = "is_full"  -> Abs(Len(q) = cap, 0, ZeroInit, ZeroArr(0), q)
    [] c.op = "count"    -> Abs(TRUE, Len(q), ZeroInit, ZeroArr(0), q)
    [] c.op = "push" ->
         IF Len(q) < cap
         THEN Abs(TRUE, 0, c.e, ZeroArr(0), Append(q, c.e))
         ELSE Abs(FALSE, 0, c.e, ZeroArr(0), q)
    [] c.op = "pop" ->
         IF Len(q) > 0
         THEN Abs(TRUE, 0, Head(q), ZeroArr(0), Tail(q))
         ELSE Abs(FALSE, 0, c.e, ZeroArr(0), q)
    [] c.op = "drop" ->
         IF Len(q) > 0
         THEN Abs(TRUE, 0, ZeroInit, ZeroArr(0), Tail(q))
         ELSE Abs(FALSE, 0, ZeroInit, ZeroArr(0), q)
    [] c.op = "peek" ->
         IF Len(q) > 0
         THEN Abs(TRUE, 0, Head(q), ZeroArr(0), q)
         ELSE Abs(FALSE, 0, c.e, ZeroArr(0), q)
    [] c.op = "peek_at" ->
         IF c.ofst < Len(q)
         THEN Abs(TRUE, 0, q[c.ofst + 1], ZeroArr(0), q)
         ELSE Abs(FALSE, 0, c.e, ZeroArr(0), q)
    [] c.op = "push_array" ->
         IF c.len <= cap - Len(q)
         THEN Abs(TRUE, 0, ZeroInit, c.arr, q \o ArrSeq(c.arr, c.len))
         ELSE Abs(FALSE, 0, ZeroInit, c.arr, q)
    [] c.op = "pop_array" ->
         IF c.len <= Len(q)
         THEN Abs(TRUE, 0, ZeroInit, SeqArr(q, c.arr, c.len),
                  SubSeq(q, c.len + 1, Len(q)))
         ELSE Abs(FALSE, 0, ZeroInit, c.arr, q)

\* C1: in every reachable state the occupancy head - tail, taken modulo the
\* counter width, lies between 0 and the capacity.
C1_OccupancyBound ==
  \A fl \in Flavor :
    /\ U32(fifo[fl].i - fifo[fl].o) >= 0
    /\ U32(fifo[fl].i - fifo[fl].o) <= fifo[fl].cap

\* C1 witness: a push was refused on a full queue of capacity 8 whose head
\* counter has wrapped past the tail counter.
C1_Witness ==
  /\ call.op = "push"
  /\ \A fl \in Flavor :
       /\ ~res[fl].ret
       /\ fifo[fl].cap = 8
       /\ fifo[fl].i < fifo[fl].o
       /\ U32(fifo[fl].i - fifo[fl].o) = fifo[fl].cap

\* C2: the queue is a FIFO: every call returns what the abstract bounded
\* sequence returns on the content the call found and leaves the content the
\* abstract sequence is left with, so what pop and pop_array deliver is what
\* push and push_array accepted, in order; a new queue is empty.
C2_Fifo ==
  \A fl \in Flavor :
    IF call.op = "init"
    THEN Content(fifo[fl]) = <<>>
    ELSE LET a == AbsApply(Content(pre[fl]), pre[fl].cap, call) IN
         /\ res[fl].ret = a.ret
         /\ res[fl].cnt = a.cnt
         /\ res[fl].e = a.e
         /\ res[fl].arr = a.arr
         /\ Content(fifo[fl]) = a.q

\* C2 witness: capacity 8, the values 1..8 were pushed since init and the
\* eighth pop has just delivered 8 and left the queue empty.
C2_Witness ==
  /\ call.op = "pop"
  /\ next = 9
  /\ \A fl \in Flavor :
       /\ fifo[fl].cap = 8
       /\ res[fl].ret
       /\ res[fl].e = 8
       /\ fifo[fl].i = 8
       /\ fifo[fl].o = 8
       /\ fifo[fl].buf = [k \in 0..7 |-> k + 1]

\* C5: push(e) succeeds iff count() < capacity before the call; a successful
\* push stores e in slot (old head) & mask, adds 1 to head, and leaves tail and
\* every other slot as they were.
C5_Push ==
  call.op = "push" =>
    \A fl \in Flavor :
      LET p == pre[fl]
          f == fifo[fl]
          slot == BitAnd(p.i, p.msk)
      IN /\ res[fl].ret <=> CountOf(fl, p) < p.cap
         /\ res[fl].ret =>
              /\ f.buf[slot] = call.e
              /\ \A k \in DOMAIN p.buf : k # slot => f.buf[k] = p.buf[k]
              /\ DOMAIN f.buf = DOMAIN p.buf
              /\ f.i = U32(p.i + 1)
              /\ f.o = p.o

\* C5 witness: a push succeeded that took the last free slot and carried the
\* head counter across its wrap point.
C5_Witness ==
  /\ call.op = "push"
  /\ \A fl \in Flavor :
       /\ res[fl].ret
       /\ pre[fl].i = UINT32_MOD - 1
       /\ fifo[fl].i = 0
       /\ CountOf(fl, pre[fl]) = pre[fl].cap - 1
       /\ pre[fl].cap = 2

\* C6: pop(out) succeeds iff count() > 0 before the call; a successful pop
\* returns the content of slot (old tail) & mask, adds 1 to tail, and leaves
\* head and the storage as they were.
C6_Pop ==
  call.op = "pop" =>
    \A fl \in Flavor :
      LET p == pre[fl]
          f == fifo[fl]
      IN /\ res[fl].ret <=> CountOf(fl, p) > 0
         /\ res[fl].ret =>
              /\ res[fl].e = p.buf[BitAnd(p.o, p.msk)]
              /\ f.o = U32(p.o + 1)
              /\ f.i = p.i
              /\ f.buf = p.buf

\* C6 witness: a pop succeeded that read the last physical slot of a
\* capacity-4 queue and carried the tail counter across its wrap point.
C6_Witness ==
  /\ call.op = "pop"
  /\ \A fl \in Flavor :
       /\ res[fl].ret
       /\ pre[fl].cap = 4
       /\ pre[fl].o = UINT32_MOD - 1
       /\ fifo[fl].o = 0
       /\ res[fl].e = 2

\* C7: a push_array with n > capacity - count(), or a pop_array with
\* n > count(), fails and leaves head, tail and every slot as they were; no
\* prefix of the request is transferred in either direction.
C7_AllOrNothing ==
  \A fl \in Flavor :
    LET p == pre[fl] IN
    /\ (call.op = "push_array" /\ call.len > p.cap - CountOf(fl, p)) =>
         /\ ~res[fl].ret
         /\ fifo[fl] = p
    /\ (call.op = "pop_array" /\ call.len > CountOf(fl, p)) =>
         /\ ~res[fl].ret
         /\ fifo[fl] = p
         /\ res[fl].arr = call.arr

\* C7 witness: a pop_array of 3 was refused on a queue holding 2 elements.
C7_Witness ==
  /\ call.op = "pop_array"
  /\ call.len = 3
  /\ \A fl \in Flavor :
       /\ ~res[fl].ret
       /\ CountOf(fl, pre[fl]) = 2

\* C8: a failing single-element call changes nothing: push on a full queue,
\* pop, drop and peek on an empty queue and peek_at with offset >= count()
\* fail, and a failed push, pop, drop, peek or peek_at leaves head, tail and
\* every slot as they were.
C8_FailureNoEffect ==
  \A fl \in Flavor :
    LET p == pre[fl] IN
    /\ (call.op = "push" /\ CountOf(fl, p) = p.cap) => ~res[fl].ret
    /\ (call.op \in {"pop", "drop", "peek"} /\ CountOf(fl, p) = 0) =>
         ~res[fl].ret
    /\ (call.op = "peek_at" /\ call.ofst >= CountOf(fl, p)) => ~res[fl].ret
    /\ (call.op \in {"push", "pop", "drop", "peek", "peek_at"}
          /\ ~res[fl].ret) => fifo[fl] = p

\* C8 witness: a drop was refused on a queue that had been filled and
\* emptied, so that head = tail > 0.
C8_Witness ==
  /\ call.op = "drop"
  /\ \A fl \in Flavor :
       /\ ~res[fl].ret
       /\ pre[fl].i = pre[fl].o
       /\ pre[fl].o = 3

\* n successive pops on queue f.
RECURSIVE Pops(_, _, _)
Pops(fl, f, n) ==
  IF n = 0 THEN f
  ELSE Pops(fl, Apply(fl, f, Call("pop", ZeroInit, 0, ZeroArr(0), 0)).f, n - 1)

\* C9: in any reachable state, a push_array of n <= capacity - count()
\* elements succeeds, and once the elements stored before it have been popped
\* a pop_array of n succeeds and returns the pushed array, in order, wherever
\* head and tail stand and whether or not the n elements cross the physical
\* end of the storage.
C9_BulkRoundTrip ==
  \A fl \in Flavor : \A n \in 0..MaxLen :
    LET f == fifo[fl]
        cnt == CountOf(fl, f)
        filled == Apply(fl, f, Call("push_array", ZeroInit, 0, Fresh(n), n))
        drained == Pops(fl, filled.f, cnt)
        popped == Apply(fl, drained,
                        Call("pop_array", ZeroInit, 0, ZeroArr(n), n))
    IN n <= f.cap - cnt =>
         /\ filled.ret
         /\ popped.ret
         /\ popped.arr = Fresh(n)
         /\ CountOf(fl, popped.f) = 0

\* C9 witness: capacity 4, head = 3, tail = 2: a push_array of 3 succeeded
\* and wrote slot 3 and then slots 0 and 1.
C9_Witness ==
  /\ call.op = "push_array"
  /\ call.len = 3
  /\ \A fl \in Flavor :
       /\ res[fl].ret
       /\ pre[fl].cap = 4
       /\ pre[fl].i = 3
       /\ pre[fl].o = 2
       /\ fifo[fl].i = 6
       /\ fifo[fl].buf[3] = call.arr[0]
       /\ fifo[fl].buf[0] = call.arr[1]
       /\ fifo[fl].buf[1] = call.arr[2]

\* C10: push_array and pop_array called with n = 0 return success and change
\* neither head, tail nor any slot, in every queue state.
C10_ZeroLength ==
  (call.op \in {"push_array", "pop_array"} /\ call.len = 0) =>
    \A fl \in Flavor :
      /\ res[fl].ret
      /\ fifo[fl] = pre[fl]

\* C10 witness: a push_array of 0 elements succeeded on a full queue.
C10_Witness ==
  /\ call.op = "push_array"
  /\ call.len = 0
  /\ \A fl \in Flavor :
       /\ res[fl].ret
       /\ CountOf(fl, pre[fl]) = pre[fl].cap
       /\ pre[fl].cap = 2

\* A call without arguments.
Plain(op) == Call(op, ZeroInit, 0, ZeroArr(0), 0)

\* C11: peek and peek_at, successful or failed and with any offset, leave
\* head, tail, count() and every storage slot unchanged.
C11_PeekPurity ==
  call.op \in {"peek", "peek_at"} =>
    \A fl \in Flavor :
      /\ fifo[fl].i = pre[fl].i
      /\ fifo[fl].o = pre[fl].o
      /\ fifo[fl].buf = pre[fl].buf
      /\ CountOf(fl, fifo[fl]) = CountOf(fl, pre[fl])

\* C11 witness: a peek_at with offset 2 succeeded on a queue whose tail
\* counter stands just below the wrap point.
C11_Witness ==
  /\ call.op = "peek_at"
  /\ call.ofst = 2
  /\ \A fl \in Flavor :
       /\ res[fl].ret
       /\ pre[fl].o = UINT32_MOD - 1
       /\ res[fl].e # ZeroInit

\* C12: peek_at(out, k) succeeds iff k < count(); out is then the content of
\* slot (tail + k) & mask, which is what the (k+1)-th pop from that state
\* returns; in every state peek(out) does what peek_at(out, 0) does.
C12_PeekAt ==
  /\ call.op = "peek_at" =>
       \A fl \in Flavor :
         LET p == pre[fl]
             nth == Apply(fl, Pops(fl, p, call.ofst), Plain("pop"))
         IN /\ res[fl].ret <=> call.ofst < CountOf(fl, p)
            /\ res[fl].ret =>
                 /\ res[fl].e = p.buf[BitAnd(U32(p.o + call.ofst), p.msk)]
                 /\ nth.ret
                 /\ nth.e = res[fl].e
  /\ \A fl \in Flavor :
       LET a == Apply(fl, fifo[fl], Plain("peek"))
           b == Apply(fl, fifo[fl], Plain("peek_at"))
       IN /\ Seen(a) = Seen(b)
          /\ a.f = b.f

\* C12 witness: peek_at with offset 1 delivered the second stored value from
\* slot 0 of a capacity-4 queue, the tail standing at slot 3.
C12_Witness ==
  /\ call.op = "peek_at"
  /\ call.ofst = 1
  /\ \A fl \in Flavor :
       /\ res[fl].ret
       /\ pre[fl].cap = 4
       /\ pre[fl].o = 3
       /\ res[fl].e = pre[fl].buf[0]
       /\ res[fl].e = 5

\* C15: reset never fails and leaves head = tail = 0 and count() = 0
\* whatever the occupancy was; from every reachable state a second reset
\* changes nothing the first has not.
C15_Reset ==
  /\ call.op = "reset" =>
       \A fl \in Flavor :
         /\ res[fl].ret
         /\ fifo[fl].i = 0
         /\ fifo[fl].o = 0
         /\ CountOf(fl, fifo[fl]) = 0
  /\ \A fl \in Flavor :
       LET once == Apply(fl, fifo[fl], Plain("reset"))
           twice == Apply(fl, once.f, Plain("reset"))
       IN /\ once.ret
          /\ twice.ret
          /\ once.f.i = 0
          /\ once.f.o = 0
          /\ CountOf(fl, once.f) = 0
          /\ twice.f = once.f

\* C15 witness: reset was called on a full capacity-4 queue whose head
\* counter had wrapped.
C15_Witness ==
  /\ call.op = "reset"
  /\ \A fl \in Flavor :
       /\ pre[fl].cap = 4
       /\ pre[fl].i < pre[fl].o
       /\ CountOf(fl, pre[fl]) = 4
       /\ fifo[fl].i = 0

C19_Drop ==
  call.op = "drop" =>
    \A fl \in Flavor :
      LET p == pre[fl]
          f == fifo[fl]
          asPop == Apply(fl, p, Plain("pop"))
      IN /\ res[fl].ret <=> CountOf(fl, p) > 0
         /\ res[fl].ret = asPop.ret
         /\ res[fl].ret =>
              /\ f.o = U32(p.o + 1)
              /\ f.i = p.i
              /\ f.buf = p.buf
         /\ f = asPop.f

\* C19 witness: a drop succeeded and carried the tail counter across the
\* wrap point.
C19_Witness ==
  /\ call.op = "drop"
  /\ \A fl \in Flavor :
       /\ res[fl].ret
       /\ pre[fl].o = UINT32_MOD - 1
       /\ fifo[fl].o = 0

\* C18: head and tail wrap past the largest counter value; also when head
\* has wrapped and is numerically smaller than tail, count() is the number
\* of elements stored and at most the capacity, consecutive positions from
\* the tail map to consecutive slots (modulo the capacity), and successive
\* pops deliver the stored values oldest first.
C18_Wraparound ==
  \A fl \in Flavor :
    LET f == fifo[fl]
        cnt == CountOf(fl, f)
    IN /\ cnt = Len(held[fl])
       /\ cnt <= f.cap
       /\ \A k \in 1..cnt :
            BitAnd(U32(f.o + k), f.msk)
              = (BitAnd(U32(f.o + k - 1), f.msk) + 1) % f.cap
       /\ \A k \in 1..Len(held[fl]) :
            LET nth == Apply(fl, Pops(fl, f, k - 1), Plain("pop")) IN
            /\ nth.ret
            /\ nth.e = held[fl][k]

\* C18 witness: a push_array of 3 carried the head counter of a capacity-4
\* queue from one below the wrap point to 2 while the tail counter stands
\* two below the wrap point; the queue stores 1, 2, 3, 4.
C18_Witness ==
  /\ call.op = "push_array"
  /\ call.len = 3
  /\ \A fl \in Flavor :
       /\ res[fl].ret
       /\ pre[fl].i = UINT32_MOD - 1
       /\ fifo[fl].i = 2
       /\ fifo[fl].o = UINT32_MOD - 2
       /\ fifo[fl].i < fifo[fl].o
       /\ fifo[fl].cap = 4
       /\ held[fl] = <<1, 2, 3, 4>>

\* C22: the external-buffer queue and the embedded-buffer queue, set up with
\* the same capacity and driven by the same calls, return the same result
\* and output for every call and hold equal head, tail, capacity, mask and
\* storage after every call; an init called again on either (gfifo's with
\* the buffer and capacity it has) returns the same and leaves both equal
\* again, in the state a reset leaves.
C22_SameContract ==
  LET g == fifo["gfifo"]
      s == fifo["sfifo"]
      gi == gfifo_init(g, Ptr(FALSE, g.buf), g.cap)
      si == sfifo_init(s.cap, Ptr(FALSE, s))
  IN /\ res["gfifo"] = res["sfifo"]
     /\ g.i = s.i
     /\ g.o = s.o
     /\ g.cap = s.cap
     /\ g.msk = s.msk
     /\ g.buf = s.buf
     /\ Seen(gi) = Seen(si)
     /\ gi.f = si.f
     /\ gi.f = Apply("gfifo", g, Plain("reset")).f
     /\ si.f = Apply("sfifo", s, Plain("reset")).f

\* A pop_array of MaxLen elements that wraps has returned the same array
\* from both queues of capacity 4 and left an element in each.
C22_Witness ==
  /\ call.op = "pop_array"
  /\ call.len = MaxLen
  /\ \A fl \in Flavor :
       /\ res[fl].ret
       /\ BitAnd(pre[fl].o, pre[fl].msk) + call.len > pre[fl].cap
       /\ res[fl].arr # ZeroArr(MaxLen)
       /\ fifo[fl].cap = 4
       /\ fifo[fl].i # fifo[fl].o

\* The smaller of two numbers.
Min(a, b) == IF a < b THEN a ELSE b

\* The frame of a bulk call c on queue f of flavor fl once it has sampled
\* both indices and passed the admission test: pofs and l1 are the start
\* slot and the length of its first memcpy(), n the number of elements.
Admitted(fl, f, c) ==
  LET t0 == Frame(c.op, c.e, c.ofst, c.arr, c.len)
      t1 == StepOf(fl, f, t0, FALSE).t
  IN StepOf(fl, f, t1, FALSE).t

\* C23: a successful push_array(arr, n) stores arr[k] in slot
\* (old head + k) & mask for every k < n and nothing else, by at most two
\* contiguous copies: min(n, capacity - (head & mask)) elements from slot
\* head & mask on and, only if n is larger, the rest from slot 0 on;
\* pop_array reads arr[k] from slot (old tail + k) & mask by the same two
\* runs from tail & mask; the two run lengths sum to n, neither run goes
\* past the end of the storage array and the second ends before the first
\* begins.
C23_TwoRuns ==
  (call.op \in {"push_array", "pop_array"} /\ call.len > 0) =>
    \A fl \in Flavor :
      res[fl].ret =>
        LET p == pre[fl]
            f == fifo[fl]
            n == call.len
            t == Admitted(fl, p, call)
            start == IF call.op = "push_array" THEN p.i ELSE p.o
            ofs == BitAnd(start, p.msk)
            run1 == Min(n, p.cap - ofs)
            run2 == n - run1
        IN /\ t.pc = "xfer"
           /\ t.n = n
           /\ t.pofs = ofs
           /\ t.l1 = run1
           /\ run1 >= 1
           /\ run2 >= 0
           /\ run1 + run2 = n
           /\ ofs + run1 <= p.cap
           /\ run2 <= ofs
           /\ run2 > 0 => ofs + run1 = p.cap
           /\ call.op = "push_array" =>
                /\ \A k \in 0..(n - 1) :
                     f.buf[BitAnd(U32(p.i + k), p.msk)] = call.arr[k]
                /\ f.buf = Memcpy(Memcpy(p.buf, ofs, call.arr, 0, run1),
                                  0, call.arr, run1, run2)
                /\ \A s \in DOMAIN p.buf :
                     (\A k \in 0..(n - 1) : s # BitAnd(U32(p.i + k), p.msk))
                       => f.buf[s] = p.buf[s]
           /\ call.op = "pop_array" =>
                /\ \A k \in 0..(n - 1) :
                     res[fl].arr[k] = p.buf[BitAnd(U32(p.o + k), p.msk)]
                /\ res[fl].arr
                     = Memcpy(Memcpy(call.arr, 0, p.buf, ofs, run1),
                              run1, p.buf, 0, run2)
                /\ f.buf = p.buf

\* A pop_array of three elements from tail slot 3 of a capacity-4 queue has
\* read one element from slot 3 and two from slots 0 and 1, after the
\* counters wrapped.
C23_Witness ==
  /\ call.op = "pop_array"
  /\ call.len = 3
  /\ \A fl \in Flavor :
       /\ res[fl].ret
       /\ pre[fl].cap = 4
       /\ BitAnd(pre[fl].o, pre[fl].msk) = 3
       /\ Admitted(fl, pre[fl], call).l1 = 1
       /\ fifo[fl].o < pre[fl].o
       /\ res[fl].arr[0] > 0
       /\ res[fl].arr[2] = res[fl].arr[0] + 2

\* C24: single writer per index: push and push_array leave tail as it was;
\* pop, pop_array, drop, peek and peek_at leave head and every storage slot
\* as they were; is_empty, is_full and count leave everything; a call after
\* which both head and tail differ from before is a reset (or init).
C24_SingleWriter ==
  \A fl \in Flavor :
    LET p == pre[fl]
        f == fifo[fl]
    IN /\ call.op \in {"push", "push_array"} => f.o = p.o
       /\ call.op \in {"pop", "pop_array", "drop", "peek", "peek_at"} =>
            /\ f.i = p.i
            /\ f.buf = p.buf
       /\ call.op \in {"is_empty", "is_full", "count"} => f = p
       /\ (f.i # p.i /\ f.o # p.o) => call.op \in {"reset", "init"}

\* A pop_array has emptied a full queue of capacity 2: the tail has moved
\* by two, the head and the two slots, which hold pushed values, have not.
C24_Witness ==
  \A fl \in Flavor :
    /\ call.op = "pop_array"
    /\ call.len = 2
    /\ res[fl].ret
    /\ pre[fl].cap = 2
    /\ fifo[fl].o = U32(pre[fl].o + 2)
    /\ fifo[fl].i = pre[fl].i
    /\ fifo[fl].buf = pre[fl].buf
    /\ fifo[fl].buf[0] # ZeroInit
    /\ fifo[fl].buf[1] # ZeroInit

\* The number of elements call c enqueued, and the number it dequeued or
\* dropped, given that it returned ret.
Enqueued(c, ret) ==
  CASE c.op = "push" /\ ret -> 1
    [] c.op = "push_array" /\ ret -> c.len
    [] OTHER -> 0
Dequeued(c, ret) ==
  CASE c.op \in {"pop", "drop"} /\ ret -> 1
    [] c.op = "pop_array" /\ ret -> c.len
    [] OTHER -> 0

\* C25: head and tail are monotonic: every call other than init and reset
\* leaves head where it was or moves it forward, modulo the counter width,
\* by exactly the number of elements the call enqueued, and tail by exactly
\* the number it dequeued or dropped; the occupancy changes by the
\* difference; no such call moves an index backwards: the step forward is
\* at most the capacity, so the stored number drops only where the counter
\* wraps from 2^w - 1 to 0.
C25_Monotonic ==
  call.op \notin {"init", "reset"} =>
    \A fl \in Flavor :
      LET p == pre[fl]
          f == fifo[fl]
          enq == Enqueued(call, res[fl].ret)
          deq == Dequeued(call, res[fl].ret)
      IN /\ f.i = U32(p.i + enq)
         /\ f.o = U32(p.o + deq)
         /\ U32(f.i - p.i) <= p.cap
         /\ U32(f.o - p.o) <= p.cap
         /\ CountOf(fl, f) = CountOf(fl, p) + enq - deq
         /\ f.i < p.i => (enq > 0 /\ p.i + enq >= UINT32_MOD)
         /\ f.o < p.o => (deq > 0 /\ p.o + deq >= UINT32_MOD)

\* A pop_array of two elements has moved the tail across the wrap point,
\* from 2^w - 1 to 1.
C25_Witness ==
  \A fl \in Flavor :
    /\ call.op = "pop_array"
    /\ call.len = 2
    /\ res[fl].ret
    /\ pre[fl].o = UINT32_MOD - 1
    /\ fifo[fl].o = 1
    /\ fifo[fl].i = pre[fl].i

\* The last call, if it was a read call other than a pop_array of no
\* element, made on a queue that held the values h: it has succeeded exactly
\* when h had the element(s) asked for, and has returned them.
ReadsOnly(fl, h) ==
  /\ call.op \in {"pop", "peek"} =>
       /\ res[fl].ret <=> h # <<>>
       /\ res[fl].ret => res[fl].e = h[1]
  /\ call.op = "peek_at" =>
       /\ res[fl].ret <=> call.ofst < Len(h)
       /\ res[fl].ret => res[fl].e = h[call.ofst + 1]
  /\ (call.op = "pop_array" /\ call.len > 0) =>
       /\ res[fl].ret <=> call.len <= Len(h)
       /\ res[fl].ret => ArrSeq(res[fl].arr, call.len) = SubSeq(h, 1, call.len)

\* reset leaves every slot as it was and nothing readable: right after it,
\* pop, peek, peek_at and pop_array of the lengths in lens fail; in every
\* state the elements from tail to head are the values pushed since the last
\* reset and not yet removed (held), so that is what the queue held before
\* the last call, and a read call returns only such values.
ResetStale(lens) ==
  \A fl \in Flavor :
    /\ call.op = "reset" =>
         /\ fifo[fl].buf = pre[fl].buf
         /\ held[fl] = <<>>
         /\ ~Apply(fl, fifo[fl], Plain("pop")).ret
         /\ ~Apply(fl, fifo[fl], Plain("peek")).ret
         /\ \A ofst \in 0..MaxLen :
              ~Apply(fl, fifo[fl],
                     Call("peek_at", ZeroInit, ofst, ZeroArr(0), 0)).ret
         /\ \A len \in lens :
              ~Apply(fl, fifo[fl],
                     Call("pop_array", ZeroInit, 0, ZeroArr(len), len)).ret
    /\ Content(fifo[fl]) = held[fl]
    /\ ReadsOnly(fl, Content(pre[fl]))

\* C27 as claimed: reset leaves every storage slot unchanged; pop, peek,
\* peek_at and pop_array of any length fail until a new push, and after new
\* pushes they return only values pushed after the reset.
C27_ResetStale_AnyLength == ResetStale(0..MaxLen)

\* C27: reset leaves every storage slot unchanged; pop, peek, peek_at and
\* pop_array of at least one element fail until a new push, and after new
\* pushes they return only values pushed after the reset.
C27_ResetStale == ResetStale(1..MaxLen)

\* After pushes of 1, 2 and 3 a reset, then a push of 4 into slot 0: a peek
\* returns 4 while slots 1 and 2 still hold 2 and 3.
C27_Witness ==
  \A fl \in Flavor :
    /\ resets = 1
    /\ call.op = "peek"
    /\ res[fl].ret
    /\ res[fl].e = 4
    /\ fifo[fl].i = 1
    /\ fifo[fl].o = 0
    /\ fifo[fl].buf[0] = 4
    /\ fifo[fl].buf[1] = 2
    /\ fifo[fl].buf[2] = 3
    /\ held[fl] = <<4>>

\* =============================================== claims under SpecSetup
\* n is a power of two (1, 2, 4, ...).
PowerOfTwo(n) == \E k \in 0..CounterBits : n = Pow2(k)

\* C13: gfifo's init(buffer, size) succeeds iff size is a power of two >= 1
\* and buffer is not NULL (0, 3 and 1000 fail; 1, 2, 4 and 1024 succeed); on
\* success capacity = size, mask = size - 1, head = tail = 0 and the buffer
\* is recorded; on failure no field of the queue object changes.
C13_Init ==
  call.op = "gfifo_init" =>
    LET p == pre["gfifo"]
        f == fifo["gfifo"]
        ret == res["gfifo"].ret
    IN /\ ret <=> (PowerOfTwo(call.size) /\ call.size >= 1 /\ ~call.buf.null)
       /\ call.size \in {0, 3, 1000} => ~ret
       /\ (call.size \in {1, 2, 4, 1024} /\ ~call.buf.null) => ret
       /\ ret => /\ f.cap = call.size
                 /\ f.msk = call.size - 1
                 /\ f.i = 0
                 /\ f.o = 0
                 /\ f.buf = call.buf.obj
       /\ ~ret => f = p

\* C13 witness: init with a real buffer and size 1000 failed on a queue of
\* capacity 4 that was set up earlier and whose counters are not zero.
C13_Witness ==
  /\ call.op = "gfifo_init"
  /\ call.size = 1000
  /\ ~call.buf.null
  /\ ~res["gfifo"].ret
  /\ pre["gfifo"].cap = 4
  /\ pre["gfifo"].i = UINT32_MOD - WrapLead
  /\ fifo["gfifo"] = pre["gfifo"]

\* C14: the build-time check of DECLARE_SFIFO_TYPE accepts a capacity iff it
\* is a power of two; 0, 3 and 1000 are rejected, so no queue of such a
\* capacity exists.
C14_StaticCheck ==
  call.op = "declare" =>
    /\ res["sfifo"].ret <=> PowerOfTwo(call.size)
    /\ call.size \in {0, 3, 1000} => ~res["sfifo"].ret

\* C14 for the sizes from 1 on: there the build-time check accepts exactly
\* the powers of two.
C14_FromOne ==
  (call.op = "declare" /\ call.size >= 1) =>
    (res["sfifo"].ret <=> PowerOfTwo(call.size))

\* C26: after a successful init of either flavor the capacity is a power of
\* two and mask = capacity - 1.
C26_CapacityMask ==
  \A fl \in Flavor :
    (call.op = fl \o "_init" /\ res[fl].ret) =>
      /\ PowerOfTwo(fifo[fl].cap)
      /\ fifo[fl].msk = U32(fifo[fl].cap - 1)

\* C26 for the capacities from 1 on, under Spec: in every state reached from
\* a successful init the capacity is a power of two and mask = capacity - 1,
\* and no call changes capacity, mask or the storage array the queue uses.
C26_FromOne ==
  \A fl \in Flavor :
    /\ PowerOfTwo(fifo[fl].cap)
    /\ fifo[fl].msk = fifo[fl].cap - 1
    /\ fifo[fl].cap = pre[fl].cap
    /\ fifo[fl].msk = pre[fl].msk
    /\ DOMAIN fifo[fl].buf = DOMAIN pre[fl].buf

\* C28: sfifo's init(queue) returns false and touches nothing when queue is
\* NULL; for every queue that is not NULL it returns true and leaves
\* head = tail = 0, capacity = size and mask = size - 1 (in the counter's
\* arithmetic), whatever the queue held before.
C28_SfifoInit ==
  call.op = "sfifo_init" =>
    LET p == pre["sfifo"]
        f == fifo["sfifo"]
        ret == res["sfifo"].ret
    IN /\ ret <=> ~call.buf.null
       /\ ret => /\ f.i = 0
                 /\ f.o = 0
                 /\ f.cap = call.size
                 /\ f.msk = U32(call.size - 1)
       /\ ~ret => f = p
       /\ fifo["gfifo"] = pre["gfifo"]

\* init has succeeded on a queue of capacity 4 that was set up earlier and
\* whose counters stood just below the wrap point.
C28_Witness ==
  /\ call.op = "sfifo_init"
  /\ res["sfifo"].ret
  /\ call.size = 4
  /\ pre["sfifo"].cap = 4
  /\ pre["sfifo"].i = UINT32_MOD - WrapLead
  /\ pre["sfifo"].o = UINT32_MOD - WrapLead
  /\ fifo["sfifo"].i = 0

\* ================================================= claims under SpecBulk
\* push(arr[k]), ..., push(arr[n-1]) called one after the other on queue f
\* of flavor fl: the queue they leave and whether all of them succeeded.
RECURSIVE Pushes(_, _, _, _, _)
Pushes(fl, f, arr, k, n) ==
  IF k >= n THEN [f |-> f, ok |-> TRUE]
  ELSE LET r == Apply(fl, f, Call("push", arr[k], 0, ZeroArr(0), 0))
           rest == Pushes(fl, r.f, arr, k + 1, n)
       IN [f |-> rest.f, ok |-> r.ret /\ rest.ok]

\* pop(&arr[k]), ..., pop(&arr[n-1]) called one after the other on queue f:
\* the queue and the array they leave and whether all of them succeeded.
RECURSIVE PopsInto(_, _, _, _, _)
PopsInto(fl, f, arr, k, n) ==
  IF k >= n THEN [f |-> f, arr |-> arr, ok |-> TRUE]
  ELSE LET r == Apply(fl, f, Call("pop", arr[k], 0, ZeroArr(0), 0))
           rest == PopsInto(fl, r.f, [arr EXCEPT ![k] = r.e], k + 1, n)
       IN [f |-> rest.f, arr |-> rest.arr, ok |-> r.ret /\ rest.ok]

\* C32: a push_array(arr, n) succeeds exactly when the n calls push(arr[0]),
\* ..., push(arr[n-1]) would all succeed, and then leaves head, tail and
\* every slot as they do; a pop_array(out, n) succeeds exactly when n pop
\* calls would all succeed, and then yields the same outputs and leaves the
\* same queue. (Stated of the requests whose n elements the caller's array
\* has.)
C32_BulkAsSingles ==
  \A fl \in Flavor :
    /\ (call.op = "push_array" /\ call.len <= MaxLen) =>
         LET s == Pushes(fl, pre[fl], call.arr, 0, call.len) IN
         /\ res[fl].ret <=> s.ok
         /\ res[fl].ret => fifo[fl] = s.f
    /\ (call.op = "pop_array" /\ call.len <= MaxLen) =>
         LET s == PopsInto(fl, pre[fl], call.arr, 0, call.len) IN
         /\ res[fl].ret <=> s.ok
         /\ res[fl].ret => (fifo[fl] = s.f /\ res[fl].arr = s.arr)

\* A push_array of MaxLen elements has filled a queue of capacity 4 that
\* held one element, crossing the end of the storage.
C32_Witness ==
  \A fl \in Flavor :
    /\ call.op = "push_array"
    /\ call.len = MaxLen
    /\ res[fl].ret
    /\ pre[fl].cap = 4
    /\ U32(pre[fl].i - pre[fl].o) = 1
    /\ U32(fifo[fl].i - fifo[fl].o) = 4
    /\ BitAnd(pre[fl].i, pre[fl].msk) = 2
    /\ Pushes(fl, pre[fl], call.arr, 0, call.len).ok

\* C33: for every request length n of the counter type, also n > capacity
\* and n the counter's largest value, and every reachable head and tail,
\* wrapped ones included, the admission arithmetic of push_array and
\* pop_array neither underflows nor wraps: the free space computed is
\* capacity - count() as integers, a request with n > capacity fails, and a
\* request with n > 0 is admitted exactly when n <= capacity - count()
\* (push_array) or n <= count() (pop_array).
C33_Admission ==
  call.op \in {"push_array", "pop_array"} =>
    \A fl \in Flavor :
      LET p == pre[fl]
          n == call.len
          cnt == CountOf(fl, p)
      IN /\ cnt <= p.cap
         /\ U32(p.cap - cnt) = p.cap - cnt
         /\ n > p.cap => ~res[fl].ret
         /\ call.op = "push_array" => (res[fl].ret <=> n <= p.cap - cnt)
         /\ call.op = "pop_array" => (res[fl].ret <=> n <= cnt)
         /\ ~res[fl].ret => fifo[fl] = p

\* A push_array asking for 2^w - 1 elements has been refused on a queue of
\* capacity 4 that holds two elements and whose head has wrapped past its
\* tail.
C33_Witness ==
  \A fl \in Flavor :
    /\ call.op = "push_array"
    /\ call.len = UINT32_MOD - 1
    /\ ~res[fl].ret
    /\ pre[fl].cap = 4
    /\ pre[fl].i < pre[fl].o
    /\ U32(pre[fl].i - pre[fl].o) = 2
    /\ fifo[fl] = pre[fl]

\* The slots in which the storage of queue f differs from that of queue p.
Changed(p, f) == {s \in DOMAIN p.buf : f.buf[s] # p.buf[s]}

\* C34: writes are confined to what the call asks for: a successful push
\* changes exactly one storage slot, the head slot; a successful push_array
\* of n elements changes at most the n slots (head + k) & mask, k < n, and
\* leaves the caller's source array as it was; a failed pop, peek, peek_at
\* or pop_array leaves the caller's output as it was; a successful
\* pop_array writes the first n elements of the output array and no other.
C34_WritesConfined ==
  \A fl \in Flavor :
    LET p == pre[fl]
        f == fifo[fl]
        r == res[fl]
        n == call.len
    IN /\ (call.op = "push" /\ r.ret) =>
            /\ Cardinality(Changed(p, f)) = 1
            /\ Changed(p, f) = {BitAnd(p.i, p.msk)}
       /\ (call.op = "push_array" /\ r.ret) =>
            /\ Changed(p, f)
                 \subseteq {BitAnd(U32(p.i + k), p.msk) : k \in 0..(n - 1)}
            /\ Cardinality(Changed(p, f)) <= n
            /\ r.arr = call.arr
       /\ (call.op \in {"pop", "peek", "peek_at"} /\ ~r.ret) => r.e = call.e
       /\ (call.op = "pop_array" /\ ~r.ret) => r.arr = call.arr
       /\ (call.op = "pop_array" /\ r.ret) =>
            /\ DOMAIN r.arr = DOMAIN call.arr
            /\ \A k \in DOMAIN call.arr :
                 IF k < n
                 THEN r.arr[k] = p.buf[BitAnd(U32(p.o + k), p.msk)]
                 ELSE r.arr[k] = call.arr[k]

\* A pop_array of two elements into an array of MaxLen elements has written
\* the first two and left the last as it was.
C34_Witness ==
  \A fl \in Flavor :
    /\ call.op = "pop_array"
    /\ call.len = 2
    /\ res[fl].ret
    /\ DOMAIN call.arr = 0..(MaxLen - 1)
    /\ res[fl].arr[0] # ZeroInit
    /\ res[fl].arr[1] # ZeroInit
    /\ res[fl].arr[MaxLen - 1] = ZeroInit
    /\ pre[fl].buf[BitAnd(U32(pre[fl].o + 2), pre[fl].msk)] # ZeroInit

\* ================================================= claims under SpecSPSC
\* C3: with one producer and one consumer interleaved access by access, what
\* the consumer obtains is a prefix of what the producer pushed: the k-th
\* element the consumer removed is the k-th value pushed (a drop removes it
\* unseen), and a peek returns the value at its offset behind those.
C3_ConsumerPrefix ==
  \A fl \in Flavor :
    /\ Len(got[fl]) <= Len(pushed[fl])
    /\ \A k \in 1..Len(got[fl]) :
         k <= Len(pushed[fl]) =>
           (got[fl][k].drop \/ got[fl][k].v = pushed[fl][k])
    /\ (cons[fl].pc = "idle" /\ cons[fl].op \in {"peek", "peek_at"}
          /\ cons[fl].ret) =>
         /\ Len(got[fl]) + cons[fl].ofst + 1 <= Len(pushed[fl])
         /\ cons[fl].e = pushed[fl][Len(got[fl]) + cons[fl].ofst + 1]

\* C4: a call's index store comes only after every slot copy of the call,
\* and every slot in [tail, head) holds the value that was pushed to it.
C4_StoreAfterCopies ==
  \A fl \in Flavor :
    /\ \A t \in {prod[fl], cons[fl]} :
         (t.pc = "xfer" /\ t.pub = "done") => t.k = t.n
    /\ \A j \in 0..(U32(fifo[fl].i - fifo[fl].o) - 1) :
         LET pos == U32(fifo[fl].o + j) IN
         /\ U32(pos - origin) + 1 <= Len(pushed[fl])
         /\ fifo[fl].buf[BitAnd(pos, fifo[fl].msk)]
              = pushed[fl][U32(pos - origin) + 1]

\* C3 and C4 restricted to the builds that perform each call's accesses in
\* the order the source writes them.
C3_InProgramOrder == build = "ordered" => C3_ConsumerPrefix
C4_InProgramOrder == build = "ordered" => C4_StoreAfterCopies

\* The accesses a call in frame t still has to make, at most: the two index
\* reads, the read of the own index, one copy per element and the read and
\* the store of the index update.
StepsLeft(t) ==
  CASE t.pc = "idle" -> 0
    [] t.pc = "rd_i" -> t.len + 6
    [] t.pc = "rd_o" -> t.len + 5
    [] t.pc = "idx" -> t.len + 4
    [] t.pc = "xfer" ->
         (t.n - t.k) + (CASE t.pub = "pending" -> 2
                          [] t.pub = "read" -> 1
                          [] OTHER -> 0)

\* C21: every operation is non-blocking: each access of a call under way
\* brings the call strictly nearer to its return, whatever the other thread
\* has done in between (a wait or a retry would be an access that does
\* not), so a call returns true or false within len + 6 of its own accesses;
\* no access of one thread moves the other thread's call.
C21_NonBlocking ==
  [][\A fl \in Flavor :
       /\ \A th \in {<<prod[fl], prod'[fl]>>, <<cons[fl], cons'[fl]>>} :
            (th[1].pc # "idle" /\ th[2] # th[1]) =>
              /\ StepsLeft(th[2]) < StepsLeft(th[1])
              /\ StepsLeft(th[1]) <= th[1].len + 6
              /\ th[2].pc = "idle" => th[2].ret \in BOOLEAN
       /\ (prod'[fl] # prod[fl]) => (cons'[fl] = cons[fl])]_vars

\* A push_array of SpscLen elements has returned true while a pop of the
\* consumer stood between its two index reads.
C21_Witness ==
  \E fl \in Flavor :
    /\ prod[fl].pc = "idle"
    /\ prod[fl].op = "push_array"
    /\ prod[fl].len = SpscLen
    /\ prod[fl].ret
    /\ cons[fl].pc = "rd_o"
    /\ cons[fl].op = "pop"

\* The slots of queue f in the readable range [tail, head).
Readable(f) ==
  {BitAnd(U32(f.o + j), f.msk) : j \in 0..(U32(f.i - f.o) - 1)}

\* The slot the k-th copy of the bulk call in frame t uses.
RunSlot(t, k) == IF k < t.l1 THEN t.pofs + k ELSE k - t.l1

\* The slot the producer's call in frame t writes with its next copy.
WriteSlot(f, t) ==
  IF t.op = "push" THEN BitAnd(t.idx, f.msk) ELSE RunSlot(t, t.k)

\* The slots the consumer's call in frame t has still to read.
ReadSlots(f, t) ==
  IF t.pc = "xfer" /\ t.k < t.n
  THEN CASE t.op \in {"pop", "peek"} -> {BitAnd(t.idx, f.msk)}
         [] t.op = "peek_at" -> {BitAnd(U32(t.idx + t.ofst), f.msk)}
         [] t.op = "pop_array" -> {RunSlot(t, j) : j \in t.k..(t.n - 1)}
         [] OTHER -> {}
  ELSE {}

\* C30: with one producer and one consumer interleaved access by access,
\* the slot the producer's push or push_array is about to write is not in
\* the readable range [tail, head) at that moment and is not a slot that the
\* consumer's pop, pop_array, peek or peek_at under way has still to read:
\* no unread element is overwritten.
C30_NoOverwrite ==
  \A fl \in Flavor :
    LET f == fifo[fl]
        p == prod[fl]
    IN (p.pc = "xfer" /\ p.k < p.n) =>
         /\ WriteSlot(f, p) \notin Readable(f)
         /\ WriteSlot(f, p) \notin ReadSlots(f, cons[fl])

\* C30 restricted to the builds that perform each call's accesses in the
\* order the source writes them.
C30_InProgramOrder == build = "ordered" => C30_NoOverwrite

\* The free space and the element count that the call in frame t computed
\* from its two index samples, and what they are on queue f now.
SampledFree(f, t) == U32(f.cap - U32(t.in - t.out))
SampledCount(t) == U32(t.in - t.out)
TrueFree(f) == U32(f.cap - U32(f.i - f.o))
TrueCount(f) == U32(f.i - f.o)

\* C31: stale index samples are conservative: with one producer and one
\* consumer, the free space an admitted push or push_array computed from its
\* samples is not above the free space there is while its head store is
\* still to come, and the count an admitted pop, pop_array, drop, peek or
\* peek_at computed is not above the count there is while it has a slot
\* still to read or its tail store still to come.
C31_StaleConservative ==
  \A fl \in Flavor :
    LET f == fifo[fl]
        p == prod[fl]
        c == cons[fl]
    IN /\ (p.pc = "idx" \/ (p.pc = "xfer" /\ p.pub # "done")) =>
            /\ SampledFree(f, p) <= TrueFree(f)
            /\ TrueFree(f) <= f.cap
       /\ (c.pc = "idx"
            \/ (c.pc = "xfer" /\ (c.k < c.n \/ c.pub \in {"pending", "read"})))
          => /\ SampledCount(c) <= TrueCount(f)
             /\ TrueCount(f) <= f.cap

\* C31 restricted to the builds that perform each call's accesses in the
\* order the source writes them.
C31_InProgramOrder == build = "ordered" => C31_StaleConservative

\* ================================================ claims under SpecQuery
\* C29: count(), is_empty() and is_full() called by the producer or by the
\* consumer while the other thread runs, reading head and tail in two
\* separate reads in either order, return a value consistent with an
\* occupancy in 0 .. capacity: count() returns at most the capacity; as long
\* as the caller has made no further call, what the consumer was told is
\* not above the occupancy (count() <= head - tail, is_empty() false means
\* not empty, is_full() true means full) and what the producer was told is
\* not below it (count() >= head - tail, is_empty() true means empty,
\* is_full() false means not full).
C29_QueriesConservative ==
  \A fl \in Flavor :
    LET f == fifo[fl]
        occ == U32(f.i - f.o)
        p == prod[fl]
        c == cons[fl]
    IN /\ occ <= f.cap
       /\ (p.pc = "idle" /\ p.op \in Queries) =>
            /\ p.op = "count" => (p.cnt <= f.cap /\ p.cnt >= occ)
            /\ (p.op = "is_empty" /\ p.ret) => occ = 0
            /\ (p.op = "is_full" /\ ~p.ret) => occ < f.cap
       /\ (c.pc = "idle" /\ c.op \in Queries) =>
            /\ c.op = "count" => (c.cnt <= f.cap /\ c.cnt <= occ)
            /\ (c.op = "is_empty" /\ ~c.ret) => occ > 0
            /\ (c.op = "is_full" /\ c.ret) => occ = f.cap

\* The producer's count() has returned 2 on a queue of capacity 2 that a
\* pop_array of the consumer has emptied meanwhile.
C29_Witness ==
  \A fl \in Flavor :
    /\ prod[fl].pc = "idle"
    /\ prod[fl].op = "count"
    /\ prod[fl].cnt = 2
    /\ fifo[fl].cap = 2
    /\ fifo[fl].i = fifo[fl].o
    /\ cons[fl].pc = "idle"
    /\ cons[fl].op = "pop_array"
    /\ cons[fl].ret
    /\ cons[fl].len = 2

\* ================================================ claims under SpecReset
\* C16: reset is safe at any time: when a reset has run, also between the
\* index reads and the index store of a push, push_array, pop or pop_array,
\* the occupancy is within 0 .. capacity in every state in which no reset
\* is under way, and what the consumer obtains after the reset was pushed
\* after the reset (not required here of a consumer call that was under way
\* when the reset ended).
C16_ResetAnyTime ==
  \A fl \in Flavor :
    /\ rst.pc = "idle" =>
         /\ U32(fifo[fl].i - fifo[fl].o) >= 0
         /\ U32(fifo[fl].i - fifo[fl].o) <= fifo[fl].cap
    /\ (resets > 0 /\ rst.pc = "idle" /\ ~rst.busy) =>
         \A k \in 1..Len(got[fl]) :
           \/ got[fl][k].drop
           \/ \E j \in 1..Len(pushed[fl]) : pushed[fl][j] = got[fl][k].v

\* C16 while no reset has been called: the occupancy bound holds.
C16_WithoutReset ==
  resets = 0 =>
    \A fl \in Flavor : U32(fifo[fl].i - fifo[fl].o) <= fifo[fl].cap

\* ============================================ claims under SpecDropMulti
\* n successive drops on queue f.
RECURSIVE Drops(_, _, _)
Drops(fl, f, n) ==
  IF n = 0 THEN f ELSE Drops(fl, Apply(fl, f, Plain("drop")).f, n - 1)

\* C20: both flavors have drop_multi(n); with n = 0 it succeeds and changes
\* nothing; with 0 < n <= count() it succeeds, adds n to tail and leaves head
\* and storage unchanged, as n drops do; with n > count() it fails and
\* changes nothing.
C20_DropMulti ==
  call.op = "drop_multi" =>
    \A fl \in Flavor :
      LET p == pre[fl]
          f == fifo[fl]
          n == call.len
          cnt == CountOf(fl, p)
      IN /\ n = 0 => (res[fl].ret /\ f = p)
         /\ (0 < n /\ n <= cnt) =>
              /\ res[fl].ret
              /\ f.o = U32(p.o + n)
              /\ f.i = p.i
              /\ f.buf = p.buf
              /\ f = Drops(fl, p, n)
         /\ n > cnt => (~res[fl].ret /\ f = p)

====
